---- MODULE Spec2Model ----
(***************************************************************************)
(* Receipt crop editor and document-rectangle detection of the             *)
(* reimbursement application.                                              *)
(*                                                                         *)
(*   lib/imageProcessing.ts   detection pipeline tail (polygon             *)
(*                            simplification, rectangle selection,         *)
(*                            confidence) and the crop transform           *)
(*   ImagePreviewCrop         the interactive crop editor component        *)
(*                                                                         *)
(* Numbers.  Pixel coordinates are integers.  Every other JavaScript       *)
(* number (lengths, ratios, scores, scale factors) is a fixed-point value  *)
(* counted in 1/Scale units, and Math.sqrt is the integer square root of   *)
(* the scaled operand.  Image sides are multiples of 20 pixels so that 5%  *)
(* and 20% of a side are whole pixels and carry no rounding.               *)
(***************************************************************************)
EXTENDS Integers, Sequences, FiniteSets, TLC

\* Fixed-point unit: a value v stands for v / Scale.
Scale == 10 * 10

\* ------------------------------------------------------------------ bounds
\* Image sides are DimStep * k pixels for k in MinDimUnits..MaxDimUnits.
DimStep == 4 * 5
MinDimUnits == 3
MaxDimUnits == 5
\* How far outside the canvas a mouse event may land, in pixels.
MouseOvershoot == 7
\* Corner updates (effective mouse moves) per editor session.
MaxMoves == 2
\* Horizontal shear of the bottom edge of the enumerated candidate outlines.
MaxSkew == 5
\* Sides, in pixels, of the densely sampled rectangle outlines that are
\* simplified.
MinRectSide == 3
MaxRectSide == 6
\* How far the lengths of the bright runs of an edge image go beyond the
\* contour size filter.
RunSlack == 3
\* Polylines that are simplified have their points on the grid
\* 0..PolyGrid x 0..PolyGrid.
PolyGrid == 2
\* Height, in pixels, of the edge images whose tracing is followed step by
\* step.
TraceHeight == 3

\* ------------------------------------------------------- program constants
\* part_009:38  processed.confidence > 30
ConfidenceThreshold == 30
\* imageProcessing.ts:291  approximatePolygon(contour, 10)
SelectorEpsilon == 10
\* imageProcessing.ts:429-430  default output size of cropToRectangle
DefaultOutputWidth == 800
DefaultOutputHeight == 1000
\* part_009:283  <canvas ref={canvasRef}> carries no width or height
\* attribute: the element mounts with the initial size of a canvas.
DefaultCanvasWidth == 300
DefaultCanvasHeight == 150

\* ------------------------------------------------------------- arithmetic
Abs(n) == IF n < 0 THEN 0 - n ELSE n
Min(a, b) == IF a < b THEN a ELSE b
Max(a, b) == IF a > b THEN a ELSE b

RECURSIVE SqrtBetween(_, _, _)
\* Largest r in lo..hi with r * r <= n (bisection).
SqrtBetween(n, lo, hi) ==
    IF lo >= hi THEN lo
    ELSE LET mid == (lo + hi + 1) \div 2
         IN  IF mid * mid <= n THEN SqrtBetween(n, mid, hi)
             ELSE SqrtBetween(n, lo, mid - 1)

\* Math.sqrt on a non-negative integer: floor of the square root.
Sqrt(n) == SqrtBetween(n, 0, Min(n, 46340))

\* The source's null / undefined.
None == [none |-> TRUE]

Pt(px, py) == [x |-> px, y |-> py]

Dims == {DimStep * k : k \in MinDimUnits..MaxDimUnits}
ImageSizes == {<<w, h>> : w \in Dims, h \in Dims}

\* ------------------------------------------------- lib/imageProcessing.ts

\* distance(p1, p2): Euclidean length in 1/Scale pixels.
distance(p1, p2) ==
    Sqrt(((p1.x - p2.x) * (p1.x - p2.x) + (p1.y - p2.y) * (p1.y - p2.y))
         * Scale * Scale)

\* distanceToLine, lines 254-260: dot and lenSq.
LineDot(point, lineStart, lineEnd) ==
    (point.x - lineStart.x) * (lineEnd.x - lineStart.x)
    + (point.y - lineStart.y) * (lineEnd.y - lineStart.y)

LineLenSq(lineStart, lineEnd) ==
    (lineEnd.x - lineStart.x) * (lineEnd.x - lineStart.x)
    + (lineEnd.y - lineStart.y) * (lineEnd.y - lineStart.y)

\* distanceToLine, lines 266-278: one coordinate of the closest point of
\* the segment, in 1/Scale pixels.  param = dot / lenSq is kept as the
\* exact quotient: param < 0 is dot < 0 and param > 1 is dot > lenSq.
Closest(from, to, dot, lenSq) ==
    IF dot < 0 THEN from * Scale
    ELSE IF dot > lenSq THEN to * Scale
    ELSE from * Scale + (dot * (to - from) * Scale) \div lenSq

\* Math.sqrt(dx * dx + dy * dy)
Hypot(dx, dy) == Sqrt(dx * dx + dy * dy)

\* distanceToLine(point, lineStart, lineEnd): distance from point to the
\* segment, in 1/Scale pixels.
distanceToLine(point, lineStart, lineEnd) ==
    IF LineLenSq(lineStart, lineEnd) = 0
    THEN Hypot((point.x - lineStart.x) * Scale, (point.y - lineStart.y) * Scale)
    ELSE Hypot(point.x * Scale
                 - Closest(lineStart.x, lineEnd.x,
                           LineDot(point, lineStart, lineEnd),
                           LineLenSq(lineStart, lineEnd)),
               point.y * Scale
                 - Closest(lineStart.y, lineEnd.y,
                           LineDot(point, lineStart, lineEnd),
                           LineLenSq(lineStart, lineEnd)))

\* douglasPeucker, lines 238-241: the loop body; best is
\* <<maxDistance, maxIndex>>.
Farther(d, i, best) == IF d > best[1] THEN <<d, i>> ELSE best

RECURSIVE MaxScan(_, _, _)
\* douglasPeucker, lines 231-242: the for loop from index i on (0-based as
\* in the source), returning <<maxDistance, maxIndex>>.
MaxScan(points, i, best) ==
    IF i >= Len(points) - 1 THEN best
    ELSE MaxScan(points, i + 1,
                 Farther(distanceToLine(points[i + 1], points[1], points[Len(points)]),
                         i, best))

\* Faulty variant of JoinHalves: the split point is kept from both halves.
JoinHalvesKeepBoth(left, right) == left \o right

\* [...left.slice(0, -1), ...right]
JoinHalves(left, right) == SubSeq(left, 1, Len(left) - 1) \o right

RECURSIVE douglasPeucker(_, _)
RECURSIVE SplitAt(_, _, _)
\* Faulty variant of SplitAt: a split needs more than twice the tolerance.
SplitAtDoubled(points, epsilon, best) ==
    IF best[1] > 2 * epsilon * Scale
    THEN JoinHalves(douglasPeucker(SubSeq(points, 1, best[2] + 1), epsilon),
                    douglasPeucker(SubSeq(points, best[2] + 1, Len(points)), epsilon))
    ELSE <<points[1], points[Len(points)]>>

\* Faulty variant of SplitAt: a maximum distance equal to epsilon splits
\* too.
SplitAtInclusive(points, epsilon, best) ==
    IF best[1] >= epsilon * Scale /\ best[1] > 0
    THEN JoinHalves(douglasPeucker(SubSeq(points, 1, best[2] + 1), epsilon),
                    douglasPeucker(SubSeq(points, best[2] + 1, Len(points)), epsilon))
    ELSE <<points[1], points[Len(points)]>>

\* douglasPeucker, lines 244-250, with best = <<maxDistance, maxIndex>>.
SplitAt(points, epsilon, best) ==
    IF best[1] > epsilon * Scale
    THEN JoinHalves(douglasPeucker(SubSeq(points, 1, best[2] + 1), epsilon),
                    douglasPeucker(SubSeq(points, best[2] + 1, Len(points)), epsilon))
    ELSE <<points[1], points[Len(points)]>>

\* Faulty variant of douglasPeucker: the base case stops at the empty list
\* only.
douglasPeuckerShortBase(points, epsilon) ==
    IF Len(points) < 1 THEN points
    ELSE SplitAt(points, epsilon, MaxScan(points, 1, <<0, 0>>))

\* douglasPeucker(points, epsilon); epsilon in pixels.
douglasPeucker(points, epsilon) ==
    IF Len(points) < 3 THEN points
    ELSE SplitAt(points, epsilon, MaxScan(points, 1, <<0, 0>>))

approximatePolygon(contour, epsilon) ==
    IF Len(contour) < 3 THEN contour ELSE douglasPeucker(contour, epsilon)

RECURSIVE InsertBy(_, _, _)
\* Insert p into the sorted sequence s after every element whose key is
\* not larger: one step of a stable sort.  byY selects the key.
InsertBy(s, p, byY) ==
    IF s = <<>> THEN <<p>>
    ELSE LET k(q) == IF byY THEN q.y ELSE q.x
         IN  IF k(p) < k(Head(s)) THEN <<p>> \o s
             ELSE <<Head(s)>> \o InsertBy(Tail(s), p, byY)

RECURSIVE SortFrom(_, _, _)
SortFrom(s, acc, byY) ==
    IF s = <<>> THEN acc ELSE SortFrom(Tail(s), InsertBy(acc, Head(s), byY), byY)

\* Array.prototype.sort with the comparator a.y - b.y or a.x - b.x (stable).
SortPoints(s, byY) == SortFrom(s, <<>>, byY)

\* orderRectanglePoints, lines 309-319, with points already sorted by y.
SplitTopBottom(sorted) ==
    [topLeft |-> SortPoints(SubSeq(sorted, 1, 2), FALSE)[1],
     topRight |-> SortPoints(SubSeq(sorted, 1, 2), FALSE)[2],
     bottomLeft |-> SortPoints(SubSeq(sorted, 3, Len(sorted)), FALSE)[1],
     bottomRight |-> SortPoints(SubSeq(sorted, 3, Len(sorted)), FALSE)[2]]

\* Faulty variant of orderRectanglePoints: the first sort is by x.
orderRectanglePointsByX(points) == SplitTopBottom(SortPoints(points, FALSE))

\* orderRectanglePoints(points) for a 4-point list.
orderRectanglePoints(points) == SplitTopBottom(SortPoints(points, TRUE))

\* The effective width and height used by the selector and the scorer.
rectWidth(rect) ==
    Max(distance(rect.topLeft, rect.topRight),
        distance(rect.bottomLeft, rect.bottomRight))
rectHeight(rect) ==
    Max(distance(rect.topLeft, rect.bottomLeft),
        distance(rect.topRight, rect.bottomRight))

\* const minSize = Math.min(width, height) * 0.2
minSize(width, height) == (Min(width, height) * Scale * 2) \div 10

PointInImage(p, width, height) ==
    ~(p.x < 0 \/ p.x >= width \/ p.y < 0 \/ p.y >= height)

\* Faulty variant of isValidRectangle: >= in place of > in the size test.
isValidRectangleInclusive(rect, width, height) ==
    /\ \A p \in {rect.topLeft, rect.topRight, rect.bottomLeft, rect.bottomRight} :
          PointInImage(p, width, height)
    /\ rectWidth(rect) >= minSize(width, height)
    /\ rectHeight(rect) >= minSize(width, height)

\* isValidRectangle(rect, width, height), lines 322-345.
isValidRectangle(rect, width, height) ==
    /\ \A p \in {rect.topLeft, rect.topRight, rect.bottomLeft, rect.bottomRight} :
          PointInImage(p, width, height)
    /\ rectWidth(rect) > minSize(width, height)
    /\ rectHeight(rect) > minSize(width, height)

\* findBestRectangle, lines 296-298: the validity test of one rectangle;
\* None when it fails.
ValidOrNone(rect, imageWidth, imageHeight) ==
    IF isValidRectangle(rect, imageWidth, imageHeight) THEN rect ELSE None

\* findBestRectangle, lines 293-299: what one simplified contour yields.
Candidate(polygon, imageWidth, imageHeight) ==
    IF Len(polygon) = 4
    THEN ValidOrNone(orderRectanglePoints(polygon), imageWidth, imageHeight)
    ELSE None

RECURSIVE findBestRectangle(_, _, _)
RECURSIVE FirstOr(_, _, _, _)
\* Faulty variant of FirstOr: the loop runs on after a success, so the
\* last qualifying contour wins.
FirstOrLast(found, rest, imageWidth, imageHeight) ==
    IF findBestRectangle(rest, imageWidth, imageHeight) # None
    THEN findBestRectangle(rest, imageWidth, imageHeight)
    ELSE found

\* The return inside the loop: a candidate ends the search.
FirstOr(found, rest, imageWidth, imageHeight) ==
    IF found # None THEN found ELSE findBestRectangle(rest, imageWidth, imageHeight)

\* findBestRectangle(contours, imageWidth, imageHeight): the for loop,
\* first contour first; None is the source's null.
findBestRectangle(contours, imageWidth, imageHeight) ==
    IF contours = <<>> THEN None
    ELSE FirstOr(Candidate(approximatePolygon(Head(contours), SelectorEpsilon),
                           imageWidth, imageHeight),
                 Tail(contours), imageWidth, imageHeight)

\* calculateConfidence, lines 408-415, from the effective width and height.
AspectScoreOf(aspectRatio) ==
    IF aspectRatio >= Scale \div 2 /\ aspectRatio <= 2 * Scale
    THEN Scale - Abs(aspectRatio - Scale)
    ELSE 0

aspectScore(rect) == AspectScoreOf((rectWidth(rect) * Scale) \div rectHeight(rect))

\* Faulty variant of sizeScore: Math.min(..., 1.0) left out.
sizeScoreUncapped(rect, width, height) ==
    (((rectWidth(rect) * rectHeight(rect)) \div (width * height * Scale)) * 10) \div 8

\* calculateConfidence, lines 409 and 418.
sizeScore(rect, width, height) ==
    Min((((rectWidth(rect) * rectHeight(rect)) \div (width * height * Scale)) * 10) \div 8,
        Scale)

\* Faulty variant of calculateConfidence: the weights 0.6 and 0.4 exchanged.
calculateConfidenceSwapped(rect, width, height) ==
    ((aspectScore(rect) * 4 + sizeScore(rect, width, height) * 6) * 100) \div 10

\* calculateConfidence(rect, width, height): 0..100 in 1/Scale.
calculateConfidence(rect, width, height) ==
    ((aspectScore(rect) * 6 + sizeScore(rect, width, height) * 4) * 100) \div 10

\* detectDocumentRectangle, lines 388-394.
ProcessedOf(rectangle, width, height) ==
    [detectedRectangle |-> rectangle,
     confidence |-> IF rectangle # None
                    THEN calculateConfidence(rectangle, width, height)
                    ELSE 0]

\* detectDocumentRectangle from line 384 on: contours is the result of
\* findContours on the edge image of a width x height raster.
detectDocumentRectangle(contours, width, height) ==
    ProcessedOf(findBestRectangle(contours, width, height), width, height)

\* JavaScript's Infinity (a division by zero): above every finite value
\* the model can reach.
Infinity == 46340 * 46340

\* dest.width / srcWidth, in 1/Scale.
ScaleFactor(destSize, srcSize) ==
    IF srcSize = 0 THEN Infinity ELSE (destSize * Scale * Scale) \div srcSize

\* Faulty variant of calculatePerspectiveTransform: the two scale factors
\* exchanged.
calculatePerspectiveTransformSwapped(srcRect, dest) ==
    [a |-> ScaleFactor(dest.height, distance(srcRect.topLeft, srcRect.bottomLeft)),
     b |-> 0, c |-> 0,
     d |-> ScaleFactor(dest.width, distance(srcRect.topLeft, srcRect.topRight)),
     e |-> 0 - srcRect.topLeft.x, f |-> 0 - srcRect.topLeft.y]

\* calculatePerspectiveTransform(srcRect, dest): the DOMMatrix after
\* translateSelf(-topLeft) and scaleSelf(scaleX, scaleY).  a and d are in
\* 1/Scale, e and f in pixels.
calculatePerspectiveTransform(srcRect, dest) ==
    [a |-> ScaleFactor(dest.width, distance(srcRect.topLeft, srcRect.topRight)),
     b |-> 0, c |-> 0,
     d |-> ScaleFactor(dest.height, distance(srcRect.topLeft, srcRect.bottomLeft)),
     e |-> 0 - srcRect.topLeft.x, f |-> 0 - srcRect.topLeft.y]

IdentityTransform == [a |-> Scale, b |-> 0, c |-> 0, d |-> Scale, e |-> 0, f |-> 0]

\* ctx.setTransform(a, b, c, d, e, f) on a fresh context: a call with a
\* non-finite argument is ignored and the identity stays current.
setTransform(m) ==
    IF m.a = Infinity \/ m.d = Infinity THEN IdentityTransform ELSE m

\* cropToRectangle(sourceCanvas, rectangle, outputWidth, outputHeight):
\* the output canvas and the transform drawImage(sourceCanvas, 0, 0) runs under.
cropToRectangle(rectangle, outputWidth, outputHeight) ==
    [width |-> outputWidth, height |-> outputHeight,
     transform |-> setTransform(
         calculatePerspectiveTransform(
             rectangle, [width |-> outputWidth, height |-> outputHeight]))]

\* Where drawImage puts source pixel p, in 1/Scale output pixels.
MapPoint(m, p) ==
    [x |-> m.a * p.x + m.c * p.y + m.e * Scale,
     y |-> m.b * p.x + m.d * p.y + m.f * Scale]

\* ---------------------------------------------------- ImagePreviewCrop

\* processImage, lines 43-48, for a given margin.
InsetRectangle(margin, width, height) ==
    [topLeft |-> Pt(margin, margin),
     topRight |-> Pt(width - margin, margin),
     bottomRight |-> Pt(width - margin, height - margin),
     bottomLeft |-> Pt(margin, height - margin)]

\* Faulty variant of FallbackMargin: Math.max in place of Math.min.
FallbackMarginOfLarger(width, height) == (Max(width, height) * 5) \div 100

\* processImage, line 42: Math.min(naturalWidth, naturalHeight) * 0.05
FallbackMargin(width, height) == (Min(width, height) * 5) \div 100

\* processImage, lines 42-48: the fallback crop rectangle.
FallbackRectangle(width, height) ==
    InsetRectangle(FallbackMargin(width, height), width, height)

\* Faulty variant of UsesDetection: the confidence test dropped.
UsesDetectionAny(processed) == processed.detectedRectangle # None

\* processImage, line 38: whether the detection seeds the editor.
UsesDetection(processed) ==
    processed.detectedRectangle # None
    /\ processed.confidence > ConfidenceThreshold * Scale

\* const pointKeys = ['topLeft', 'topRight', 'bottomRight', 'bottomLeft']
pointKeys == <<"topLeft", "topRight", "bottomRight", "bottomLeft">>

\* processImage, lines 38-49: the crop points the editor starts with.
SeedPoints(processed, width, height) ==
    IF UsesDetection(processed)
    THEN processed.detectedRectangle
    ELSE FallbackRectangle(width, height)

\* handleAutoDetect, lines 82-84: the crop points after a detection.
AutoDetected(processed, current) ==
    IF processed.detectedRectangle # None THEN processed.detectedRectangle ELSE current

\* handleMouseMove, line 112: the clamped point.
ClampToCanvas(cv, px, py) ==
    Pt(Max(0, Min(cv.width, px)), Max(0, Min(cv.height, py)))

\* Faulty variant of newPoints: the corners are put back into role order
\* after the update.
newPointsReordered(points, index, cv, px, py) ==
    orderRectanglePoints(
        [k \in 1..4 |->
            IF k = index + 1 THEN ClampToCanvas(cv, px, py) ELSE points[pointKeys[k]]])

\* handleMouseMove, lines 108-112: newPoints for the dragged corner.
newPoints(points, index, cv, px, py) ==
    [points EXCEPT ![pointKeys[index + 1]] = ClampToCanvas(cv, px, py)]

\* processImage, lines 52-60: the canvas of the editor after the load
\* handler.  The canvas element is rendered only once processedImage is
\* set (line 281); when the ref is not attached yet at line 52 the size
\* assignment is skipped and the element mounts with its initial size.
CanvasAfterLoad(attached, width, height) ==
    IF attached
    THEN [width |-> width, height |-> height]
    ELSE [width |-> DefaultCanvasWidth, height |-> DefaultCanvasHeight]

\* ----------------------------------------------------------------- inputs

\* A four-corner outline in traversal order, its bottom edge sheared by s.
Outline(x0, y0, w, h, s) ==
    <<Pt(x0, y0), Pt(x0 + w, y0), Pt(x0 + w + s, y0 + h), Pt(x0 + s, y0 + h)>>

\* The 20% threshold of the smaller side, in pixels.
Threshold(width, height) == Min(width, height) \div 5

\* Side lengths that exercise the selector: below the simplification
\* tolerance, just above it, at and around 20% of either image side, half
\* of the image and nearly all of it.
Extents(width, height, side) ==
    {SelectorEpsilon \div 2, SelectorEpsilon + 1,
     Threshold(width, height), Threshold(width, height) + 1,
     side \div 5, side \div 2, 3 * (Threshold(width, height) + 1),
     side - MaxSkew - 1}

\* The extents of the outlines that are paired with a second outline.
PairExtents(width, height, side) ==
    {SelectorEpsilon \div 2, Threshold(width, height), side - MaxSkew - 1}

Outlines(width, height, skews) ==
    {Outline(0, 0, w, h, s) :
        w \in Extents(width, height, width),
        h \in Extents(width, height, height),
        s \in skews}

PairedOutlines(width, height, skews) ==
    {Outline(0, 0, w, h, s) :
        w \in PairExtents(width, height, width),
        h \in PairExtents(width, height, height),
        s \in skews}

\* The findContours results the selector is run on: none, one outline, or
\* two outlines in either order.
ContourLists(width, height) ==
    {<<>>}
    \cup {<<c>> : c \in Outlines(width, height, {0, MaxSkew})}
    \cup {<<c1, c2>> : c1 \in PairedOutlines(width, height, {0, MaxSkew}),
                       c2 \in PairedOutlines(width, height, {0})}

\* The images the editor is opened on: no contour, a large square outline,
\* a thin tall outline, and an outline that simplification collapses
\* followed by a large one.
EditorContourLists(width, height) ==
    LET big == Outline(0, 0, Min(width, height) - MaxSkew - 1,
                       Min(width, height) - MaxSkew - 1, 0)
        thin == Outline(0, 0, Threshold(width, height) + 1, height - MaxSkew - 1, 0)
        flat == Outline(0, 0, SelectorEpsilon \div 2, height \div 2, 0)
    IN  {<<>>, <<big>>, <<thin>>, <<flat, big>>}

\* The k-th pixel (k from 0) of the outline of the rectangle with corners
\* (0, 0) and (w, h), walked clockwise from (0, 0).
PerimeterPoint(w, h, k) ==
    IF k <= w THEN Pt(k, 0)
    ELSE IF k <= w + h THEN Pt(w, k - w)
    ELSE IF k <= 2 * w + h THEN Pt(2 * w + h - k, h)
    ELSE Pt(0, 2 * w + 2 * h - k)

\* The outline as a point list in traversal order starting at its pixel
\* number start; closed repeats the first point at the end.
RectContour(w, h, start, closed) ==
    [i \in 1..(2 * (w + h) + (IF closed THEN 1 ELSE 0)) |->
        PerimeterPoint(w, h, (start + i - 1) % (2 * (w + h)))]

RectCorners(w, h) == {Pt(0, 0), Pt(w, 0), Pt(w, h), Pt(0, h)}

\* Tolerances the simplifier is called with: none, small ones (2 is the
\* default of approximatePolygon) and the selector's.
Epsilons == {0, 1, 2, SelectorEpsilon}

\* Point lists of fewer than 3 points.
ShortLists ==
    {<<>>}
    \cup {<<p>> : p \in RectCorners(MinRectSide, MaxRectSide)}
    \cup {<<p, q>> : p \in RectCorners(MinRectSide, MaxRectSide),
                     q \in RectCorners(MinRectSide, MaxRectSide)}

GridPoints == {Pt(x, y) : x \in 0..PolyGrid, y \in 0..PolyGrid}

\* Every polyline of 3 grid points, and every one of 4 grid points that
\* starts in the corner (0, 0).
Polylines ==
    {<<p, q, r>> : p \in GridPoints, q \in GridPoints, r \in GridPoints}
    \cup {<<Pt(0, 0), q, r, t>> : q \in GridPoints, r \in GridPoints, t \in GridPoints}

\* The calls of the simplifier: a point list to simplify, the tolerance
\* and, for a rectangle outline, its true corners.
SimplifyCalls ==
    {[points |-> RectContour(w, h, start, closed), epsilon |-> e,
      corners |-> RectCorners(w, h), approx |-> None, dp |-> None] :
        w \in MinRectSide..MaxRectSide, h \in MinRectSide..MaxRectSide,
        start \in 0..(2 * MaxRectSide), closed \in BOOLEAN, e \in Epsilons}
    \cup {[points |-> l, epsilon |-> e, corners |-> {}, approx |-> None,
           dp |-> None] : l \in ShortLists, e \in Epsilons}
    \cup {[points |-> l, epsilon |-> e, corners |-> {}, approx |-> None,
           dp |-> None] : l \in Polylines, e \in 0..2}

\* Mouse positions in canvas coordinates: beyond the top-left corner, beyond
\* the bottom-right corner, and inside the canvas.
MousePoints(cv) ==
    {Pt(0 - MouseOvershoot, 0 - MouseOvershoot),
     Pt(cv.width + MouseOvershoot, cv.height + MouseOvershoot),
     Pt(cv.width \div 2, cv.height \div 2)}

\* Output sizes cropToRectangle is called with.
TargetSizes ==
    {<<DefaultOutputWidth, DefaultOutputHeight>>, <<DimStep, DimStep>>,
     <<DimStep * MaxDimUnits, DimStep * MinDimUnits>>}

\* Quadrilaterals handed to cropToRectangle: corners on the image border,
\* on the fallback margin and inside.
CropCorners(width, height) ==
    {0, FallbackMargin(width, height), width \div 2,
     width - FallbackMargin(width, height), width}
    \X {0, FallbackMargin(width, height), height \div 2,
        height - FallbackMargin(width, height), height}

CropQuads(width, height) ==
    {[topLeft |-> Pt(tl[1], tl[2]), topRight |-> Pt(tr[1], tl[2]),
      bottomRight |-> Pt(br[1], br[2]), bottomLeft |-> Pt(tl[1], br[2])] :
        tl \in CropCorners(width, height),
        tr \in CropCorners(width, height),
        br \in CropCorners(width, height)}

\* ------------------------------------------------------------------ state
VARIABLES
    image,          \* <<naturalWidth, naturalHeight>> of the file's image
    contours,       \* what findContours yields for that image
    pc,             \* "loading" | "loaded" | "failed"; "input" | "detected" |
                    \* "quad" | "cropped" in the function-level specifications
    isProcessing,
    processedImage, \* None or [detectedRectangle, confidence]
    cropPoints,     \* None or a Rectangle
    isDragging,
    dragPointIndex,
    canvas,         \* canvasRef.current: None or [width, height]
    croppedCanvas,  \* None or the result of cropToRectangle
    toBlobPending,  \* a toBlob callback is queued
    outcome,        \* "open" | "accepted" | "cancelled": the parent's view
    moves,          \* corner updates applied so far
    outputSize,     \* <<outputWidth, outputHeight>> cropToRectangle is called with
    call,           \* None, or the arguments and results of a library call in
                    \* the function-level specifications
    camera          \* None, or the useCamera hook during one startCamera call

vars == <<image, contours, pc, isProcessing, processedImage, cropPoints,
          isDragging, dragPointIndex, canvas, croppedCanvas, toBlobPending,
          outcome, moves, outputSize, call, camera>>

editorVars == <<isProcessing, processedImage, cropPoints, isDragging,
                dragPointIndex, canvas, croppedCanvas, toBlobPending, outcome,
                moves, outputSize, call, camera>>

\* The component right after mount: useState defaults, processImage has set
\* img.src and waits for the load event.
Mounted ==
    /\ isProcessing = TRUE
    /\ processedImage = None
    /\ cropPoints = None
    /\ isDragging = FALSE
    /\ dragPointIndex = 0 - 1
    /\ canvas = None
    /\ croppedCanvas = None
    /\ toBlobPending = FALSE
    /\ outcome = "open"
    /\ moves = 0
    /\ outputSize = <<DefaultOutputWidth, DefaultOutputHeight>>
    /\ call = None
    /\ camera = None

Init ==
    /\ image \in {<<w, h>> : w \in {DimStep * MinDimUnits, DimStep * MaxDimUnits},
                             h \in {DimStep * MinDimUnits, DimStep * MaxDimUnits}}
    /\ contours \in EditorContourLists(image[1], image[2])
    /\ pc = "loading"
    /\ Mounted

\* The parent's onAccept handler (ReceiptScanner.handleUploadCropAccept,
\* CameraPreview.handleCropAccept): the pending file is reset to null and
\* the cropped file goes to onFileSelect / onCapture.
handleUploadCropAccept == outcome' = "accepted"

\* The parent's onCancel handler (ReceiptScanner.handleUploadCropCancel,
\* CameraPreview.handleCropCancel): the pending file is reset to null, which
\* unmounts the editor; nothing is passed on.
handleUploadCropCancel == outcome' = "cancelled"

\* The overlay (svg, corner handles) of renderCropOverlay is on screen.
OverlayShown ==
    outcome = "open" /\ processedImage # None /\ cropPoints # None /\ canvas # None

\* img.onload, lines 33-62: detection succeeds.  attached tells whether
\* canvasRef.current is set when line 52 reads it.
imgOnload(attached) ==
    /\ pc = "loading" /\ outcome = "open"
    /\ processedImage' = detectDocumentRectangle(contours, image[1], image[2])
    /\ cropPoints' = SeedPoints(processedImage', image[1], image[2])
    /\ canvas' = CanvasAfterLoad(attached, image[1], image[2])
    /\ isProcessing' = FALSE
    /\ pc' = "loaded"
    /\ UNCHANGED <<image, contours, isDragging, dragPointIndex, croppedCanvas,
                   toBlobPending, outcome, moves, outputSize, call, camera>>

\* img.onload, lines 63-66: detectDocumentRectangle throws (no 2d context).
imgOnloadThrows ==
    /\ pc = "loading" /\ outcome = "open"
    /\ isProcessing' = FALSE
    /\ pc' = "loaded"
    /\ UNCHANGED <<image, contours, processedImage, cropPoints, isDragging,
                   dragPointIndex, canvas, croppedCanvas, toBlobPending, outcome,
                moves, outputSize, call, camera>>

\* The image fails to load: img has no onerror handler, nothing runs.
imgLoadFails ==
    /\ pc = "loading" /\ outcome = "open"
    /\ pc' = "failed"
    /\ UNCHANGED <<image, contours, editorVars>>

\* handleAutoDetect, lines 76-89, detection returning a result.  The
\* button is disabled while isProcessing; the handler runs to its end
\* before the next event.
handleAutoDetect ==
    /\ outcome = "open" /\ ~isProcessing
    /\ processedImage # None
    /\ cropPoints' = AutoDetected(detectDocumentRectangle(contours, image[1], image[2]),
                                  cropPoints)
    /\ isProcessing' = FALSE
    /\ UNCHANGED <<image, contours, pc, processedImage, isDragging, dragPointIndex,
                   canvas, croppedCanvas, toBlobPending, outcome, moves, outputSize, call, camera>>

\* handleAutoDetect, lines 85-88: detection throws.
handleAutoDetectThrows ==
    /\ outcome = "open" /\ ~isProcessing
    /\ processedImage # None
    /\ isProcessing' = FALSE
    /\ UNCHANGED <<image, contours, pc, processedImage, cropPoints, isDragging,
                   dragPointIndex, canvas, croppedCanvas, toBlobPending, outcome,
                moves, outputSize, call, camera>>

\* handleMouseDown(e, pointIndex) on a corner handle.
handleMouseDown(pointIndex) ==
    /\ OverlayShown
    /\ isDragging' = TRUE
    /\ dragPointIndex' = pointIndex
    /\ UNCHANGED <<image, contours, pc, isProcessing, processedImage, cropPoints,
                   canvas, croppedCanvas, toBlobPending, outcome, moves, outputSize, call, camera>>

\* handleMouseMove(e), lines 97-114; (px, py) is the event position in
\* canvas coordinates (lines 105-106).
handleMouseMove(px, py) ==
    /\ OverlayShown
    /\ IF ~isDragging \/ dragPointIndex = 0 - 1 \/ cropPoints = None \/ canvas = None
       THEN UNCHANGED <<cropPoints, moves>>
       ELSE /\ moves < MaxMoves
            /\ cropPoints' = newPoints(cropPoints, dragPointIndex, canvas, px, py)
            /\ moves' = moves + 1
    /\ UNCHANGED <<image, contours, pc, isProcessing, processedImage, isDragging,
                   dragPointIndex, canvas, croppedCanvas, toBlobPending, outcome,
                   outputSize, call, camera>>

\* handleMouseUp (onMouseUp and onMouseLeave of the overlay).
handleMouseUp ==
    /\ OverlayShown
    /\ isDragging' = FALSE
    /\ dragPointIndex' = 0 - 1
    /\ UNCHANGED <<image, contours, pc, isProcessing, processedImage, cropPoints,
                   canvas, croppedCanvas, toBlobPending, outcome, moves, outputSize, call, camera>>

\* Faulty variant of handleAccept: the crop uses the quadrilateral the
\* editor was seeded with, not the one the user left.
handleAcceptSeed ==
    /\ outcome = "open" /\ ~isProcessing /\ cropPoints # None
    /\ canvas # None
    /\ isProcessing' = TRUE
    /\ croppedCanvas' = cropToRectangle(SeedPoints(processedImage, image[1], image[2]),
                                        outputSize[1], outputSize[2])
    /\ toBlobPending' = TRUE
    /\ UNCHANGED <<image, contours, pc, processedImage, cropPoints, isDragging,
                   dragPointIndex, canvas, outcome, moves, outputSize, call, camera>>

\* handleAccept, lines 121-138: the crop succeeds and toBlob is queued.
handleAccept ==
    /\ outcome = "open" /\ ~isProcessing /\ cropPoints # None
    /\ canvas # None
    /\ isProcessing' = TRUE
    /\ croppedCanvas' = cropToRectangle(cropPoints, outputSize[1], outputSize[2])
    /\ toBlobPending' = TRUE
    /\ UNCHANGED <<image, contours, pc, processedImage, cropPoints, isDragging,
                   dragPointIndex, canvas, outcome, moves, outputSize, call, camera>>

\* handleAccept, lines 139-142: cropToRectangle throws.
handleAcceptThrows ==
    /\ outcome = "open" /\ ~isProcessing /\ cropPoints # None
    /\ canvas # None
    /\ isProcessing' = FALSE
    /\ UNCHANGED <<image, contours, pc, processedImage, cropPoints, isDragging,
                   dragPointIndex, canvas, croppedCanvas, toBlobPending, outcome,
                moves, outputSize, call, camera>>

\* The toBlob callback, lines 129-138: with a blob the file goes to
\* onAccept; without one nothing happens and the cropped canvas is dropped.
toBlobCallback(blob) ==
    /\ toBlobPending
    /\ toBlobPending' = FALSE
    /\ IF blob
       THEN handleUploadCropAccept /\ UNCHANGED croppedCanvas
       ELSE croppedCanvas' = None /\ UNCHANGED outcome
    /\ UNCHANGED <<image, contours, pc, isProcessing, processedImage, cropPoints,
                   isDragging, dragPointIndex, canvas, moves, outputSize, call, camera>>

\* Faulty variant of Cancel: the buttons are not disabled while
\* isProcessing.
CancelWhileProcessing ==
    /\ outcome = "open"
    /\ handleUploadCropCancel
    /\ UNCHANGED <<image, contours, pc, isProcessing, processedImage, cropPoints,
                   isDragging, dragPointIndex, canvas, croppedCanvas, toBlobPending,
                   moves, outputSize, call, camera>>

\* The Cancel buttons (onClick={onCancel}, disabled while isProcessing).
Cancel ==
    /\ outcome = "open" /\ ~isProcessing
    /\ handleUploadCropCancel
    /\ UNCHANGED <<image, contours, pc, isProcessing, processedImage, cropPoints,
                   isDragging, dragPointIndex, canvas, croppedCanvas, toBlobPending, moves, outputSize, call, camera>>

MouseDown == \E i \in 0..3 : handleMouseDown(i)
MouseMove == canvas # None /\ \E p \in MousePoints(canvas) : handleMouseMove(p.x, p.y)
ImgLoad == \E attached \in BOOLEAN : imgOnload(attached)
ToBlob == \E blob \in BOOLEAN : toBlobCallback(blob)

Next ==
    \/ ImgLoad
    \/ imgOnloadThrows
    \/ imgLoadFails
    \/ handleAutoDetect
    \/ handleAutoDetectThrows
    \/ MouseDown
    \/ MouseMove
    \/ handleMouseUp
    \/ handleAccept
    \/ handleAcceptThrows
    \/ ToBlob
    \/ Cancel

Spec == Init /\ [][Next]_vars

\* ------------------------------------------- function-level specifications

\* The load handler on every enumerated image size and findContours
\* result.
InitDetect ==
    /\ image \in ImageSizes
    /\ contours \in ContourLists(image[1], image[2])
    /\ pc = "loading"
    /\ Mounted

NextDetect == ImgLoad

SpecDetect == InitDetect /\ [][NextDetect]_vars

\* ---------------------------------------------------------------------
\* findContours on an edge image [width, height, bright], bright the set
\* of pixels whose value is above the threshold.

\* imageProcessing.ts:167  contour.length > 50
MinContourPoints == 50

\* The neighbours of a pixel in the order of the loops over dy and dx.
NeighborOffsets ==
    <<<<0 - 1, 0 - 1>>, <<0, 0 - 1>>, <<1, 0 - 1>>, <<0 - 1, 0>>, <<1, 0>>,
      <<0 - 1, 1>>, <<0, 1>>, <<1, 1>>>>

\* Faulty variant of Pushed: the diagonal neighbours are left out.
PushedFourConnected(point, visited, img) ==
    SelectSeq([i \in 1..8 |-> Pt(point.x + NeighborOffsets[i][1],
                                 point.y + NeighborOffsets[i][2])],
              LAMBDA q : /\ q.x >= 0 /\ q.x < img.width
                         /\ q.y >= 0 /\ q.y < img.height
                         /\ q.x = point.x \/ q.y = point.y
                         /\ q \notin visited /\ q \in img.bright)

\* traceContour, lines 197-213: the neighbours of point that are pushed.
Pushed(point, visited, img) ==
    SelectSeq([i \in 1..8 |-> Pt(point.x + NeighborOffsets[i][1],
                                 point.y + NeighborOffsets[i][2])],
              LAMBDA q : /\ q.x >= 0 /\ q.x < img.width
                         /\ q.y >= 0 /\ q.y < img.height
                         /\ q \notin visited /\ q \in img.bright)

\* The position in the stack of the point the loop of traceContour
\* handles next, the entries above it being popped and skipped as visited
\* (line 192); 0 if every entry is.
LastUnvisited(stack, visited) ==
    CHOOSE i \in 0..Len(stack) :
        /\ i > 0 => stack[i] \notin visited
        /\ \A j \in (i + 1)..Len(stack) : stack[j] \in visited

\* traceContour, lines 189-214: the loop over the stack.
RECURSIVE TraceFrom(_, _, _, _)
TraceAt(stack, top, visited, contour, img) ==
    IF top = 0 THEN [contour |-> contour, visited |-> visited]
    ELSE TraceFrom(SubSeq(stack, 1, top - 1)
                       \o Pushed(stack[top], visited \cup {stack[top]}, img),
                   visited \cup {stack[top]}, Append(contour, stack[top]), img)

TraceFrom(stack, visited, contour, img) ==
    TraceAt(stack, LastUnvisited(stack, visited), visited, contour, img)

\* traceContour(data, width, height, startX, startY, visited, threshold):
\* the contour and the visited array it leaves.
traceContour(img, start, visited) == TraceFrom(<<start>>, visited, <<>>, img)

\* The first pixel in raster order among pixels.
FirstInRaster(pixels, width) ==
    CHOOSE p \in pixels :
        \A q \in pixels : p.y * width + p.x <= q.y * width + q.x

\* findContours, lines 159-171: the raster scan from the next bright pixel
\* not yet visited; a traced contour is kept if it has more than 50 points.
RECURSIVE ScanFrom(_, _, _)
\* Faulty variant of ScanTraced: a contour of exactly 50 points is kept.
ScanTracedInclusive(trace, found, img) ==
    ScanFrom(trace.visited,
             IF Len(trace.contour) >= MinContourPoints
             THEN Append(found, trace.contour)
             ELSE found,
             img)

ScanTraced(trace, found, img) ==
    ScanFrom(trace.visited,
             IF Len(trace.contour) > MinContourPoints
             THEN Append(found, trace.contour)
             ELSE found,
             img)

ScanFrom(visited, found, img) ==
    IF img.bright \ visited = {} THEN found
    ELSE ScanTraced(traceContour(img, FirstInRaster(img.bright \ visited, img.width),
                                 visited),
                    found, img)

RECURSIVE InsertByLength(_, _)
InsertByLength(s, c) ==
    IF s = <<>> THEN <<c>>
    ELSE IF Len(c) > Len(Head(s)) THEN <<c>> \o s
    ELSE <<Head(s)>> \o InsertByLength(Tail(s), c)

RECURSIVE SortContoursFrom(_, _)
SortContoursFrom(s, acc) ==
    IF s = <<>> THEN acc ELSE SortContoursFrom(Tail(s), InsertByLength(acc, Head(s)))

\* Faulty variant of sortByLength: the contours stay in scan order.
sortByLengthDropped(found) == found

\* contours.sort((a, b) => b.length - a.length), line 173 (stable).
sortByLength(found) == SortContoursFrom(found, <<>>)

\* findContours(imageData, threshold)
findContours(img) == sortByLength(ScanFrom({}, <<>>, img))

\* A horizontal run of bright pixels in row y, from the left border.
Run(y, length) == {Pt(x, y) : x \in 0..(length - 1)}

RunLengths == (MinContourPoints - 1)..(MinContourPoints + RunSlack)

\* The rows the runs of an edge image start in.
RunRows == {0, 3, 6}

\* Edge images of three runs, two empty rows between them; with tail the
\* first run goes on one pixel diagonally below its right end.
EdgeImages ==
    {[width |-> MinContourPoints + RunSlack + 1, height |-> 7,
      bright |-> Run(0, a) \cup {Pt(a, 1) : t \in 1..tail}
                     \cup Run(3, b) \cup Run(6, c)] :
        a \in RunLengths, b \in RunLengths, c \in RunLengths, tail \in 0..1}

InitContours ==
    /\ image \in {<<DimStep * MinDimUnits, DimStep * MinDimUnits>>}
    /\ contours = <<>>
    /\ pc = "edges"
    /\ isProcessing = FALSE
    /\ processedImage = None
    /\ cropPoints = None
    /\ isDragging = FALSE
    /\ dragPointIndex = 0 - 1
    /\ canvas = None
    /\ croppedCanvas = None
    /\ toBlobPending = FALSE
    /\ outcome = "open"
    /\ moves = 0
    /\ outputSize = <<DefaultOutputWidth, DefaultOutputHeight>>
    /\ call \in {[imageData |-> img, result |-> None] : img \in EdgeImages}
    /\ camera = None

FindContoursStep ==
    /\ pc = "edges"
    /\ call' = [call EXCEPT !.result = findContours(call.imageData)]
    /\ pc' = "contours"
    /\ UNCHANGED <<image, contours, isProcessing, processedImage, cropPoints,
                   isDragging, dragPointIndex, canvas, croppedCanvas, toBlobPending,
                   outcome, moves, outputSize, camera>>

NextContours == FindContoursStep

SpecContours == InitContours /\ [][NextContours]_vars

\* approximatePolygon and douglasPeucker on every enumerated point list.
InitSimplify ==
    /\ image \in {<<DimStep * MinDimUnits, DimStep * MinDimUnits>>}
    /\ contours = <<>>
    /\ pc = "input"
    /\ isProcessing = FALSE
    /\ processedImage = None
    /\ cropPoints = None
    /\ isDragging = FALSE
    /\ dragPointIndex = 0 - 1
    /\ canvas = None
    /\ croppedCanvas = None
    /\ toBlobPending = FALSE
    /\ outcome = "open"
    /\ moves = 0
    /\ outputSize = <<DefaultOutputWidth, DefaultOutputHeight>>
    /\ call \in SimplifyCalls
    /\ camera = None

SimplifyStep ==
    /\ pc = "input"
    /\ call' = [call EXCEPT !.approx = approximatePolygon(call.points, call.epsilon),
                            !.dp = douglasPeucker(call.points, call.epsilon)]
    /\ pc' = "simplified"
    /\ UNCHANGED <<image, contours, isProcessing, processedImage, cropPoints,
                   isDragging, dragPointIndex, canvas, croppedCanvas, toBlobPending,
                   outcome, moves, outputSize, camera>>

NextSimplify == SimplifyStep

SpecSimplify == InitSimplify /\ [][NextSimplify]_vars

\* ---------------------------------------------------------------------
\* useCamera: one call of startCamera, from its await of
\* requestCameraAccess (useCamera.ts:89) on.  requestCameraAccess always
\* asks for video and line 93 has seen the stream active, so an obtained
\* stream has a video track.

\* useCamera.ts:127  10 second timeout, in milliseconds
VideoLoadTimeout == 10000
\* useCamera.ts:228  delay of the immediate readiness check
ImmediateCheckDelay == 100
\* useCamera.ts:236  delay of the fallback readiness check
FallbackCheckDelay == 1000
\* HTMLMediaElement.readyState: HAVE_NOTHING .. HAVE_ENOUGH_DATA
HaveEnoughData == 4

TimeoutMessage == "Video loading timeout - camera may be in use"

\* camera.ts:84  the message of a refused permission
DeniedMessage == "Camera access denied. Please allow camera permissions."

\* The hook's state, refs and the video element once streamRef.current holds
\* the new stream; videoEl tells whether videoRef.current is an element.
\* access is where the getUserMedia request stands, stopped records that
\* stopCamera has run.
StreamObtained(videoEl) ==
    [isLoading |-> TRUE, isActive |-> FALSE, error |-> "null",
     streamRef |-> TRUE, tracksLive |-> TRUE, videoEl |-> videoEl,
     srcObject |-> FALSE, readyState |-> 0, hasSize |-> FALSE, events |-> {},
     promise |-> "none", resolved |-> FALSE, timeoutId |-> FALSE,
     listeners |-> FALSE, playPromise |-> "none", now |-> 0, settles |-> 0,
     access |-> "obtained", stopped |-> FALSE]

\* startCamera at its await of requestCameraAccess, lines 79-89: isLoading
\* is set, no stream is held and none exists yet.
AwaitingAccess ==
    [StreamObtained(TRUE) EXCEPT !.streamRef = FALSE, !.tracksLive = FALSE,
                                 !.access = "awaiting"]

\* videoRef.current.srcObject = null, when the ref holds the element: the
\* element goes back to HAVE_NOTHING and its queued events are dropped.
clearSrcObject(c) ==
    IF c.videoEl
    THEN [c EXCEPT !.srcObject = FALSE, !.readyState = 0, !.hasSize = FALSE,
                   !.events = {}]
    ELSE c

\* if (streamRef.current) { stopCameraStream(streamRef.current);
\* streamRef.current = null }
releaseStream(c) ==
    [c EXCEPT !.streamRef = FALSE,
              !.tracksLive = IF c.streamRef THEN FALSE ELSE c.tracksLive]

\* startCamera's catch block, lines 258-287.
startCameraCatch(c, message) ==
    [clearSrcObject(releaseStream(c)) EXCEPT
        !.isLoading = FALSE, !.isActive = FALSE, !.error = message,
        !.settles = c.settles + 1]

\* startCamera after the wait, lines 242-257.
startCameraReady(c) ==
    [c EXCEPT !.isLoading = FALSE, !.isActive = TRUE, !.error = "null",
              !.settles = c.settles + 1]

\* resolve() of the readiness promise: settles it if it is pending, and
\* startCamera continues behind the await.
resolve(c) ==
    IF c.promise = "pending"
    THEN startCameraReady([c EXCEPT !.promise = "resolved"])
    ELSE c

\* reject(new Error(message)) of the readiness promise.
reject(c, message) ==
    IF c.promise = "pending"
    THEN startCameraCatch([c EXCEPT !.promise = "rejected"], message)
    ELSE c

\* cleanup, lines 131-137.
cleanup(c) == [c EXCEPT !.timeoutId = FALSE, !.listeners = FALSE]

\* resolveOnce, lines 139-146.
resolveOnce(c) ==
    IF ~c.resolved THEN resolve(cleanup([c EXCEPT !.resolved = TRUE])) ELSE c

\* cleanup(); if (!resolved) { resolved = true; reject(...) }
rejectOnce(c, message) ==
    IF ~c.resolved
    THEN reject(cleanup([c EXCEPT !.resolved = TRUE]), message)
    ELSE cleanup(c)

\* video.readyState >= 2 && video.videoWidth > 0 (&& video.videoHeight > 0)
HasCurrentData(c) == c.readyState >= 2 /\ c.hasSize

handleLoadedMetadata(c) == IF c.hasSize THEN resolveOnce(c) ELSE c

handleLoadedData(c) == IF HasCurrentData(c) THEN resolveOnce(c) ELSE c

handleCanPlay(c) == IF c.hasSize THEN resolveOnce(c) ELSE c

handleError(c) == rejectOnce(c, "Failed to load video stream")

\* Faulty variant of onTimeout: the timer cleans up and does not reject.
onTimeoutSilent(c) == cleanup(c)

\* The callback of the 10 second timer, lines 124-127.
onTimeout(c) == reject(cleanup(c), TimeoutMessage)

\* playPromise.then, lines 199-204.
playFulfilled(c) == IF HasCurrentData(c) THEN resolveOnce(c) ELSE c

\* playPromise.catch, lines 205-219.
playRejected(c) ==
    IF HasCurrentData(c) THEN resolveOnce(c)
    ELSE rejectOnce(c, "Failed to play video")

\* The immediate check, lines 223-228.
immediateCheck(c) == IF HasCurrentData(c) THEN resolveOnce(c) ELSE c

\* The fallback check, lines 231-236.
fallbackCheck(c) ==
    IF ~c.resolved /\ c.readyState >= 1 /\ c.hasSize THEN resolveOnce(c) ELSE c

\* The handler of a video event, if it is still registered.
Dispatched(c, event) ==
    IF ~c.listeners THEN c
    ELSE IF event = "loadedmetadata" THEN handleLoadedMetadata(c)
    ELSE IF event = "loadeddata" THEN handleLoadedData(c)
    ELSE handleCanPlay(c)

\* The events the element queues when readyState rises from old to new.
EventsBetween(old, new) ==
    {e \in {"loadedmetadata", "loadeddata", "canplay"} :
        \/ e = "loadedmetadata" /\ old < 1 /\ new >= 1
        \/ e = "loadeddata" /\ old < 2 /\ new >= 2
        \/ e = "canplay" /\ old < 3 /\ new >= 3}

\* The timer that is due next after time now, and its callback.
NextDeadline(now) ==
    IF now < ImmediateCheckDelay THEN ImmediateCheckDelay
    ELSE IF now < FallbackCheckDelay THEN FallbackCheckDelay
    ELSE VideoLoadTimeout

TimerFired(c, deadline) ==
    IF deadline = ImmediateCheckDelay THEN immediateCheck(c)
    ELSE IF deadline = FallbackCheckDelay THEN fallbackCheck(c)
    ELSE IF c.timeoutId THEN onTimeout(c)
    ELSE c

cameraVars == <<image, contours, pc, isProcessing, processedImage, cropPoints,
                isDragging, dragPointIndex, canvas, croppedCanvas, toBlobPending,
                outcome, moves, outputSize, call>>

InitCamera ==
    /\ image \in {<<DimStep * MinDimUnits, DimStep * MinDimUnits>>}
    /\ contours = <<>>
    /\ pc = "camera"
    /\ isProcessing = FALSE
    /\ processedImage = None
    /\ cropPoints = None
    /\ isDragging = FALSE
    /\ dragPointIndex = 0 - 1
    /\ canvas = None
    /\ croppedCanvas = None
    /\ toBlobPending = FALSE
    /\ outcome = "open"
    /\ moves = 0
    /\ outputSize = <<DefaultOutputWidth, DefaultOutputHeight>>
    /\ call = None
    /\ camera = AwaitingAccess

\* requestCameraAccess resolves, lines 89-97: the stream is stored in
\* streamRef.current whatever happened during the wait; videoEl tells
\* whether videoRef.current still holds an element.
AccessGranted(videoEl) ==
    /\ camera.access = "awaiting"
    /\ camera' = [StreamObtained(videoEl) EXCEPT !.stopped = camera.stopped]
    /\ UNCHANGED cameraVars

\* requestCameraAccess throws its CameraError (camera.ts:78-106) and
\* startCamera's catch block runs.
AccessDenied ==
    /\ camera.access = "awaiting"
    /\ camera' = startCameraCatch([camera EXCEPT !.access = "denied"],
                                  DeniedMessage)
    /\ UNCHANGED cameraVars

\* startCamera, lines 100-239: without a video element it throws; with one
\* it attaches the stream, arms the timers, registers the listeners and
\* calls play().
AttachStream ==
    /\ camera.access = "obtained"
    /\ camera.promise = "none" /\ camera.settles = 0
    /\ camera' = IF camera.videoEl
                 THEN [camera EXCEPT !.srcObject = TRUE, !.promise = "pending",
                                     !.timeoutId = TRUE, !.listeners = TRUE,
                                     !.playPromise = "pending"]
                 ELSE startCameraCatch(camera, "Video element not available")
    /\ UNCHANGED cameraVars

\* The stream delivers: the element's readyState rises to readyState and
\* its size becomes known or not.
VideoProgress(readyState, hasSize) ==
    /\ camera.srcObject /\ camera.tracksLive
    /\ readyState > camera.readyState \/ (hasSize /\ ~camera.hasSize)
    /\ readyState >= camera.readyState /\ readyState >= 1
    /\ camera.hasSize => hasSize
    /\ camera' = [camera EXCEPT
                     !.readyState = readyState, !.hasSize = hasSize,
                     !.events = @ \cup EventsBetween(camera.readyState, readyState)]
    /\ UNCHANGED cameraVars

\* A queued video event reaches its listener.
VideoEvent(event) ==
    /\ event \in camera.events
    /\ camera' = Dispatched([camera EXCEPT !.events = @ \ {event}], event)
    /\ UNCHANGED cameraVars

\* The element reports an error while the listeners are registered.
VideoError ==
    /\ camera.srcObject /\ camera.listeners
    /\ camera' = handleError(camera)
    /\ UNCHANGED cameraVars

\* The promise of video.play() settles.
PlaySettles(fulfilled) ==
    /\ camera.playPromise = "pending"
    /\ camera' = IF fulfilled
                 THEN playFulfilled([camera EXCEPT !.playPromise = "settled"])
                 ELSE playRejected([camera EXCEPT !.playPromise = "settled"])
    /\ UNCHANGED cameraVars

\* Time passes to the next timer, whose callback runs.
Tick ==
    /\ camera.promise # "none"
    /\ camera.now < VideoLoadTimeout
    /\ camera' = TimerFired([camera EXCEPT !.now = NextDeadline(camera.now)],
                            NextDeadline(camera.now))
    /\ UNCHANGED cameraVars

\* CameraPreview.tsx:165: rendered with isLoading, the preview has no
\* video element and videoRef.current is null.
VideoUnmounts ==
    /\ camera.isLoading /\ camera.videoEl /\ camera.promise # "none"
    /\ camera' = [camera EXCEPT !.videoEl = FALSE]
    /\ UNCHANGED cameraVars

\* stopCamera, lines 289-305.
stopCamera ==
    /\ \/ camera.streamRef \/ camera.srcObject \/ camera.isActive
       \/ camera.error # "null" \/ ~camera.stopped
    /\ camera' = [clearSrcObject(releaseStream(camera)) EXCEPT
                     !.isActive = FALSE, !.error = "null", !.stopped = TRUE]
    /\ UNCHANGED cameraVars

Progress == \E readyState \in 1..HaveEnoughData, hasSize \in BOOLEAN :
                VideoProgress(readyState, hasSize)

Event == \E event \in {"loadedmetadata", "loadeddata", "canplay"} : VideoEvent(event)

Play == \E fulfilled \in BOOLEAN : PlaySettles(fulfilled)

Granted == \E videoEl \in BOOLEAN : AccessGranted(videoEl)

NextCamera ==
    \/ Granted
    \/ AccessDenied
    \/ AttachStream
    \/ Progress
    \/ Event
    \/ VideoError
    \/ Play
    \/ Tick
    \/ VideoUnmounts
    \/ stopCamera

SpecCamera == InitCamera /\ [][NextCamera]_vars

\* ---------------------------------------------------------------------
\* findContours and traceContour step by step: every loop iteration is a
\* step.  call holds the locals: the scan position index = y * width + x,
\* visited, the kept contours found, and the stack and contour of the
\* running traceContour; traced is the history of the contours
\* traceContour returned, kept or not.

\* imageProcessing.ts:153  imageData.width of the traced edge images: 3
\* columns, the least width with columns that are not neighbours.
TraceWidth == 3

TracePixels == {Pt(x, y) : x \in 0..(TraceWidth - 1), y \in 0..(TraceHeight - 1)}

\* findContours, lines 159-162: the pixel at the scan position.
ScanPixel(c) == Pt(c.index % c.imageData.width, c.index \div c.imageData.width)

PixelCount(c) == c.imageData.width * c.imageData.height

InitTrace ==
    /\ image \in {<<DimStep * MinDimUnits, DimStep * MinDimUnits>>}
    /\ contours = <<>>
    /\ pc = "scan"
    /\ isProcessing = FALSE
    /\ processedImage = None
    /\ cropPoints = None
    /\ isDragging = FALSE
    /\ dragPointIndex = 0 - 1
    /\ canvas = None
    /\ croppedCanvas = None
    /\ toBlobPending = FALSE
    /\ outcome = "open"
    /\ moves = 0
    /\ outputSize = <<DefaultOutputWidth, DefaultOutputHeight>>
    /\ call \in {[imageData |-> [width |-> TraceWidth, height |-> TraceHeight,
                                  bright |-> b],
                   index |-> 0, visited |-> {}, found |-> <<>>, stack |-> <<>>,
                   contour |-> <<>>, traced |-> <<>>, result |-> None] :
                    b \in SUBSET TracePixels}
    /\ camera = None

traceVars == <<image, contours, isProcessing, processedImage, cropPoints,
               isDragging, dragPointIndex, canvas, croppedCanvas, toBlobPending,
               outcome, moves, outputSize, camera>>

\* findContours, lines 159-171: one iteration of the loops over y and x; on
\* an unvisited bright pixel traceContour is entered with that pixel on
\* its stack.
findContoursScan ==
    /\ pc = "scan" /\ call.index < PixelCount(call)
    /\ IF ScanPixel(call) \notin call.visited /\ ScanPixel(call) \in call.imageData.bright
       THEN /\ call' = [call EXCEPT !.stack = <<ScanPixel(call)>>, !.contour = <<>>]
            /\ pc' = "trace"
       ELSE /\ call' = [call EXCEPT !.index = @ + 1]
            /\ pc' = "scan"
    /\ UNCHANGED traceVars

\* Faulty variant of traceContourPop: the popped pixel is not marked
\* visited.
traceContourPopUnmarked ==
    /\ pc = "trace" /\ call.stack # <<>>
    /\ call' = IF call.stack[Len(call.stack)] \in call.visited
               THEN [call EXCEPT !.stack = SubSeq(@, 1, Len(@) - 1)]
               ELSE [call EXCEPT
                        !.stack = SubSeq(@, 1, Len(@) - 1)
                                    \o Pushed(call.stack[Len(call.stack)],
                                              call.visited, call.imageData),
                        !.contour = Append(@, call.stack[Len(call.stack)])]
    /\ pc' = "trace"
    /\ UNCHANGED traceVars

\* traceContour, lines 189-214: one iteration of the while loop.
traceContourPop ==
    /\ pc = "trace" /\ call.stack # <<>>
    /\ call' = IF call.stack[Len(call.stack)] \in call.visited
               THEN [call EXCEPT !.stack = SubSeq(@, 1, Len(@) - 1)]
               ELSE [call EXCEPT
                        !.stack = SubSeq(@, 1, Len(@) - 1)
                                    \o Pushed(call.stack[Len(call.stack)],
                                              call.visited \cup {call.stack[Len(call.stack)]},
                                              call.imageData),
                        !.visited = @ \cup {call.stack[Len(call.stack)]},
                        !.contour = Append(@, call.stack[Len(call.stack)])]
    /\ pc' = "trace"
    /\ UNCHANGED traceVars

\* traceContour returns (line 216) and findContours keeps the contour if
\* it has more than 50 points (lines 166-169), then scans on.
traceContourReturn ==
    /\ pc = "trace" /\ call.stack = <<>>
    /\ call' = [call EXCEPT
                   !.found = IF Len(call.contour) > MinContourPoints
                             THEN Append(@, call.contour) ELSE @,
                   !.traced = Append(@, call.contour),
                   !.index = @ + 1]
    /\ pc' = "scan"
    /\ UNCHANGED traceVars

\* findContours, line 173: the scan is over, the contours are sorted and
\* returned.
findContoursReturn ==
    /\ pc = "scan" /\ call.index = PixelCount(call)
    /\ call' = [call EXCEPT !.result = sortByLength(call.found)]
    /\ pc' = "returned"
    /\ UNCHANGED traceVars

NextTrace ==
    \/ findContoursScan
    \/ traceContourPop
    \/ traceContourReturn
    \/ findContoursReturn

SpecTrace == InitTrace /\ [][NextTrace]_vars

\* ---------------------------------------------------------------------
\* orderRectanglePoints on every list of 4 grid points, in every order.
InitOrder ==
    /\ image \in {<<DimStep * MinDimUnits, DimStep * MinDimUnits>>}
    /\ contours = <<>>
    /\ pc = "unordered"
    /\ isProcessing = FALSE
    /\ processedImage = None
    /\ cropPoints = None
    /\ isDragging = FALSE
    /\ dragPointIndex = 0 - 1
    /\ canvas = None
    /\ croppedCanvas = None
    /\ toBlobPending = FALSE
    /\ outcome = "open"
    /\ moves = 0
    /\ outputSize = <<DefaultOutputWidth, DefaultOutputHeight>>
    /\ call \in {[points |-> <<p, q, r, t>>, rect |-> None] :
                    p \in GridPoints, q \in GridPoints, r \in GridPoints,
                    t \in GridPoints}
    /\ camera = None

OrderStep ==
    /\ pc = "unordered"
    /\ call' = [call EXCEPT !.rect = orderRectanglePoints(call.points)]
    /\ pc' = "ordered"
    /\ UNCHANGED <<image, contours, isProcessing, processedImage, cropPoints,
                   isDragging, dragPointIndex, canvas, croppedCanvas, toBlobPending,
                   outcome, moves, outputSize, camera>>

NextOrder == OrderStep

SpecOrder == InitOrder /\ [][NextOrder]_vars

\* cropToRectangle on every enumerated quadrilateral and output size.
InitCrop ==
    /\ image \in ImageSizes
    /\ contours = <<>>
    /\ pc = "quad"
    /\ isProcessing = FALSE
    /\ processedImage = None
    /\ cropPoints \in CropQuads(image[1], image[2])
    /\ isDragging = FALSE
    /\ dragPointIndex = 0 - 1
    /\ canvas = [width |-> image[1], height |-> image[2]]
    /\ croppedCanvas = None
    /\ toBlobPending = FALSE
    /\ outcome = "open"
    /\ moves = 0
    /\ outputSize \in TargetSizes
    /\ call = None
    /\ camera = None

CropStep ==
    /\ pc = "quad"
    /\ croppedCanvas' = cropToRectangle(cropPoints, outputSize[1], outputSize[2])
    /\ pc' = "cropped"
    /\ UNCHANGED <<image, contours, isProcessing, processedImage, cropPoints,
                   isDragging, dragPointIndex, canvas, toBlobPending, outcome,
                   moves, outputSize, call, camera>>

NextCrop == CropStep

SpecCrop == InitCrop /\ [][NextCrop]_vars

\* ----------------------------------------------------------------- claims

\* The load handler has run detection to its end without an error.
DetectionDone == pc = "loaded" /\ processedImage # None

\* The detection that seeds the editor: a rectangle with confidence above 30.
ConfidentDetection ==
    /\ processedImage.detectedRectangle # None
    /\ processedImage.confidence > 30 * Scale

\* The rectangle inset by (mx, my) from the sides of a width x height image.
Inset(mx, my, width, height) ==
    [topLeft |-> Pt(mx, my),
     topRight |-> Pt(width - mx, my),
     bottomRight |-> Pt(width - mx, height - my),
     bottomLeft |-> Pt(mx, height - my)]

\* C1 as amended: after detection of a loaded image completes without
\* error the editor holds a crop quadrilateral; it is the detected
\* quadrilateral whenever one was returned with a confidence above 30, and
\* the default inset rectangle in every other case.
C1_SeedFromConfidentDetection ==
    DetectionDone =>
        /\ cropPoints # None
        /\ ConfidentDetection => cropPoints = processedImage.detectedRectangle
        /\ ~ConfidentDetection => cropPoints = FallbackRectangle(image[1], image[2])

\* C1 as stated: the editor holds the detected quadrilateral whenever
\* detection returned one, and the inset default only when none was found.
C1_SeedFromAnyDetection ==
    DetectionDone =>
        /\ cropPoints # None
        /\ processedImage.detectedRectangle # None
              => cropPoints = processedImage.detectedRectangle
        /\ cropPoints = FallbackRectangle(image[1], image[2])
              => processedImage.detectedRectangle = None

\* A valid quadrilateral was detected with confidence at most 30 and the
\* editor was seeded with the inset default.
C1_LowConfidenceFallsBack ==
    /\ DetectionDone
    /\ processedImage.detectedRectangle # None
    /\ processedImage.confidence <= 30 * Scale
    /\ cropPoints = FallbackRectangle(image[1], image[2])
    /\ cropPoints # processedImage.detectedRectangle

\* C2 as amended: the fallback quadrilateral of a W x H image is the
\* axis-aligned rectangle inset on every side by the same margin, 5% of the
\* smaller of W and H.
C2_FallbackInsetBySmallerSide ==
    (DetectionDone /\ ~ConfidentDetection) =>
        \E m \in 0..Min(image[1], image[2]) :
            /\ 100 * m = 5 * Min(image[1], image[2])
            /\ cropPoints = Inset(m, m, image[1], image[2])

\* C2 as stated: the fallback quadrilateral is inset by 5% of W on the left
\* and right and by 5% of H on the top and bottom.
C2_FallbackInsetPerAxis ==
    (DetectionDone /\ ~ConfidentDetection) =>
        \E mx \in 0..image[1], my \in 0..image[2] :
            /\ 100 * mx = 5 * image[1]
            /\ 100 * my = 5 * image[2]
            /\ cropPoints = Inset(mx, my, image[1], image[2])

\* The fallback was used on an image that is not square.
C2_FallbackOnNonSquare ==
    /\ DetectionDone /\ ~ConfidentDetection
    /\ image[1] # image[2]
    /\ cropPoints # None
    /\ cropPoints.topLeft.x = cropPoints.topLeft.y

\* C8: every result of detectDocumentRectangle carries a confidence in
\* [0, 100]; it is 0 when no quadrilateral is returned.
C8_ConfidenceRange ==
    DetectionDone =>
        /\ processedImage.confidence >= 0
        /\ processedImage.confidence <= 100 * Scale
        /\ processedImage.detectedRectangle = None => processedImage.confidence = 0

\* A quadrilateral was returned and scored the full 100.
C8_FullConfidence ==
    /\ DetectionDone
    /\ processedImage.detectedRectangle # None
    /\ processedImage.confidence = 100 * Scale

\* The effective width and height of the detected quadrilateral, from its
\* edge lengths, in 1/Scale pixels.
DetectedWidth ==
    Max(distance(processedImage.detectedRectangle.topLeft,
                 processedImage.detectedRectangle.topRight),
        distance(processedImage.detectedRectangle.bottomLeft,
                 processedImage.detectedRectangle.bottomRight))

DetectedHeight ==
    Max(distance(processedImage.detectedRectangle.topLeft,
                 processedImage.detectedRectangle.bottomLeft),
        distance(processedImage.detectedRectangle.topRight,
                 processedImage.detectedRectangle.bottomRight))

\* width / height of the detected quadrilateral, in 1/Scale.
DetectedRatio == (DetectedWidth * Scale) \div DetectedHeight

\* min(quadArea / (0.8 * imageArea), 1) of the detected quadrilateral, in
\* 1/Scale, quadArea being effective width times effective height.
DetectedSizeScore ==
    Min((((DetectedWidth * DetectedHeight) \div (image[1] * image[2] * Scale)) * 10) \div 8,
        Scale)

AtMostFifth(p, q) ==
    25 * ((p.x - q.x) * (p.x - q.x) + (p.y - q.y) * (p.y - q.y))
        <= Min(image[1], image[2]) * Min(image[1], image[2])

\* A four-point outline (corners in the order top-left, top-right,
\* bottom-right, bottom-left) whose effective width or effective height is
\* at or below the threshold.
TooSmall(c) ==
    \/ AtMostFifth(c[1], c[2]) /\ AtMostFifth(c[4], c[3])
    \/ AtMostFifth(c[1], c[4]) /\ AtMostFifth(c[2], c[3])

Corners(points) == {points[pointKeys[k]] : k \in 1..4}

\* The step is a corner update of handleMouseMove.
CornerUpdated == moves' = moves + 1

\* C3: a corner update leaves the dragged corner with x in [0, width - 1]
\* and y in [0, height - 1], width and height being those of the canvas
\* the image was drawn on.
C3_ClampedInsideRaster ==
    [][CornerUpdated =>
          /\ cropPoints'[pointKeys[dragPointIndex + 1]].x \in 0..(canvas.width - 1)
          /\ cropPoints'[pointKeys[dragPointIndex + 1]].y \in 0..(canvas.height - 1)]_vars

\* C4: a corner update with index i replaces corner i alone: the other
\* three corners keep their values and their roles, and the new corner is
\* stored whatever shape results; while no drag is active the crop points
\* change only by auto-detection, never by a mouse move.
C4_OnlyDraggedCornerChanges ==
    [][/\ CornerUpdated =>
             /\ isDragging /\ dragPointIndex \in 0..3
             /\ \A k \in 1..4 :
                   k # dragPointIndex + 1
                      => cropPoints'[pointKeys[k]] = cropPoints[pointKeys[k]]
             /\ \E p \in MousePoints(canvas) :
                   /\ cropPoints'[pointKeys[dragPointIndex + 1]].x
                         = Max(0, Min(canvas.width, p.x))
                   /\ cropPoints'[pointKeys[dragPointIndex + 1]].y
                         = Max(0, Min(canvas.height, p.y))
       /\ (~isDragging /\ cropPoints # None /\ cropPoints' # cropPoints)
             => (moves' = moves /\ cropPoints' = processedImage.detectedRectangle)]_vars

\* The corner with the role topLeft was dragged to the right of and below
\* bottomRight and the other corners stayed where the inset default put
\* them: the quadrilateral is self-intersecting and was stored as it is.
C4_RolesNotResorted ==
    /\ moves > 0
    /\ cropPoints # None
    /\ cropPoints.topLeft.x > cropPoints.bottomRight.x
    /\ cropPoints.topLeft.y > cropPoints.bottomRight.y
    /\ cropPoints.topRight = FallbackRectangle(image[1], image[2]).topRight
    /\ cropPoints.bottomRight = FallbackRectangle(image[1], image[2]).bottomRight
    /\ cropPoints.bottomLeft = FallbackRectangle(image[1], image[2]).bottomLeft

\* C5: in every editor state all four corners of the crop quadrilateral are
\* non-negative and bounded by the image width and height.
C5_CornersWithinImage ==
    cropPoints # None =>
        \A p \in Corners(cropPoints) :
            /\ p.x >= 0 /\ p.x <= image[1]
            /\ p.y >= 0 /\ p.y <= image[2]

\* Output pixel q is within one pixel of (px, py).
Near(q, px, py) ==
    Abs(q.x - px * Scale) <= Scale /\ Abs(q.y - py * Scale) <= Scale

\* C6: cropToRectangle maps the four corners of the quadrilateral onto the
\* corners of the output: topLeft to (0, 0), topRight to (targetW, 0),
\* bottomRight to (targetW, targetH) and bottomLeft to (0, targetH), here
\* for quadrilaterals with four distinct corners and to within one pixel.
C6_CornersMapToOutputCorners ==
    (pc = "cropped" /\ Cardinality(Corners(cropPoints)) = 4) =>
        /\ Near(MapPoint(croppedCanvas.transform, cropPoints.topLeft), 0, 0)
        /\ Near(MapPoint(croppedCanvas.transform, cropPoints.topRight),
                outputSize[1], 0)
        /\ Near(MapPoint(croppedCanvas.transform, cropPoints.bottomRight),
                outputSize[1], outputSize[2])
        /\ Near(MapPoint(croppedCanvas.transform, cropPoints.bottomLeft),
                0, outputSize[2])

\* C7: cropToRectangle on the quadrilateral of the image's own four corners
\* yields an output of exactly targetW x targetH under a pure scale:
\* scaleX = targetW / imageWidth, scaleY = targetH / imageHeight, no
\* translation, rotation or skew.
C7_IdentityCropIsPureScale ==
    (pc = "cropped" /\ cropPoints = Inset(0, 0, image[1], image[2])) =>
        /\ croppedCanvas.width = outputSize[1]
        /\ croppedCanvas.height = outputSize[2]
        /\ croppedCanvas.transform.a = (outputSize[1] * Scale) \div image[1]
        /\ croppedCanvas.transform.d = (outputSize[2] * Scale) \div image[2]
        /\ croppedCanvas.transform.b = 0 /\ croppedCanvas.transform.c = 0
        /\ croppedCanvas.transform.e = 0 /\ croppedCanvas.transform.f = 0

\* The whole of a non-square image was cropped to an output of another
\* shape.
C7_IdentityCropDone ==
    /\ pc = "cropped"
    /\ cropPoints = Inset(0, 0, image[1], image[2])
    /\ image[1] # image[2]
    /\ outputSize[1] * image[2] # outputSize[2] * image[1]
    /\ croppedCanvas.transform.a # croppedCanvas.transform.d

\* The quadrilateral a contour stands for: its simplification with epsilon
\* 10, put into corner roles.
QuadOf(c) == orderRectanglePoints(approximatePolygon(c, 10))

\* The contour's simplification has exactly 4 points and they pass
\* validation.
Qualifies(c) ==
    /\ Len(approximatePolygon(c, 10)) = 4
    /\ isValidRectangle(QuadOf(c), image[1], image[2])

\* C11: findBestRectangle returns the quadrilateral of the earliest contour
\* in list order whose simplification with epsilon 10 has exactly 4 points
\* and passes validation, whatever follows it in the list, and returns none
\* exactly when no contour qualifies.
C11_FirstQualifyingContourWins ==
    DetectionDone =>
        /\ processedImage.detectedRectangle = None
              <=> \A i \in 1..Len(contours) : ~Qualifies(contours[i])
        /\ \A i \in 1..Len(contours) :
              (Qualifies(contours[i]) /\ \A j \in 1..(i - 1) : ~Qualifies(contours[j]))
                 => processedImage.detectedRectangle = QuadOf(contours[i])

\* Two contours qualify with different quadrilaterals and the first one's
\* was returned.
C11_SecondQualifierIgnored ==
    /\ DetectionDone
    /\ Len(contours) = 2
    /\ Qualifies(contours[1]) /\ Qualifies(contours[2])
    /\ QuadOf(contours[1]) # QuadOf(contours[2])
    /\ processedImage.detectedRectangle = QuadOf(contours[1])

\* C12: when the image fails to load, detection is never invoked and the
\* editor does not stay in the processing state: it has left it, or has
\* notified its parent, or a handler that will do so is still to run.
C12_LoadFailureLeavesProcessing ==
    pc = "failed" =>
        /\ processedImage = None
        /\ ~isProcessing \/ outcome # "open" \/ ENABLED Next

\* C13: Accept ends in onAccept(file) or in a return to the interactive
\* state: once no encode callback is outstanding and the parent has not
\* been given a file, isProcessing is false again (Cancel is enabled).
C13_AcceptSettles ==
    (pc = "loaded" /\ outcome = "open" /\ ~toBlobPending) => ~isProcessing

\* C14: cancellation is final.  Once the user has cancelled the crop editor
\* the parent's pending file stays discarded and the parent is never handed
\* a file derived from the cancelled image, whatever accept, cancel and
\* encode-callback steps follow; no encode callback is outstanding at that
\* point.
C14_CancelIsFinal ==
    [][/\ outcome = "cancelled" => outcome' = "cancelled"
       /\ outcome' = "cancelled" => ~toBlobPending']_vars

\* The editor was cancelled after the user had moved a corner.
C14_CancelledAfterEditing ==
    /\ outcome = "cancelled"
    /\ processedImage # None
    /\ moves > 0
    /\ ~toBlobPending

\* Point p is within one pixel of point c on both axes.
WithinOnePixel(p, c) == Abs(p.x - c.x) <= 1 /\ Abs(p.y - c.y) <= 1

\* C15: simplifying the densely sampled outline of an axis-aligned
\* rectangle, its points in traversal order, with a small epsilon (1 or 2)
\* returns exactly 4 points, each within 1 pixel of a true corner.
C15_RectangleOutlineGivesFourCorners ==
    (pc = "simplified" /\ call.corners # {} /\ call.epsilon \in 1..2) =>
        /\ Len(call.approx) = 4
        /\ \A i \in 1..Len(call.approx) :
              \E c \in call.corners : WithinOnePixel(call.approx[i], c)

\* C16: approximatePolygon and douglasPeucker return a list of fewer than
\* 3 points (0, 1 or 2 points) unchanged, for every epsilon.
C16_ShortInputUnchanged ==
    (pc = "simplified" /\ Len(call.points) < 3) =>
        /\ call.approx = call.points
        /\ call.dp = call.points

\* A list of one point was simplified with epsilon 0 and came back as it
\* was.
C16_SinglePointKept ==
    /\ pc = "simplified"
    /\ Len(call.points) = 1
    /\ call.epsilon = 0
    /\ call.approx = call.points
    /\ call.dp = call.points

\* A step in which cropToRectangle ran and returned a canvas.
CropInvoked == ~toBlobPending /\ toBlobPending'

\* C18: cropToRectangle runs only in an accept, only once detection has
\* finished and a crop quadrilateral exists, never while the editor is
\* busy, and on the quadrilateral as the corner updates left it.
C18_CropOnlyOnAcceptOfCurrentQuad ==
    [][/\ CropInvoked =>
             /\ pc = "loaded" /\ processedImage # None
             /\ ~isProcessing /\ isProcessing'
             /\ cropPoints # None
             /\ croppedCanvas' = cropToRectangle(cropPoints, DefaultOutputWidth,
                                                 DefaultOutputHeight)
       /\ (croppedCanvas' # None /\ croppedCanvas' # croppedCanvas) => CropInvoked]_vars

\* An accept cropped a quadrilateral whose topLeft corner the user had
\* dragged away from where the editor put it.
C18_CroppedAfterDrag ==
    /\ toBlobPending
    /\ moves > 0
    /\ croppedCanvas # None
    /\ cropPoints.topLeft # SeedPoints(processedImage, image[1], image[2]).topLeft
    /\ croppedCanvas.transform.e = 0 - cropPoints.topLeft.x
    /\ croppedCanvas.transform.f = 0 - cropPoints.topLeft.y

\* C19: once the stream has been obtained, the wait for readiness is over
\* by the 10 second timeout, whose timer stays armed while the wait is
\* pending, and startCamera settles exactly once: resolved with
\* isActive = true, isLoading = false, error = null, or rejected with
\* isActive = false, isLoading = false, an error message and the stream
\* stopped and released; isLoading is never true after that.
C19_ReadinessWaitSettlesOnce ==
    [][/\ camera'.promise = "pending" =>
             /\ camera'.isLoading /\ camera'.settles = 0
             /\ camera'.timeoutId /\ camera'.now < VideoLoadTimeout
       /\ camera'.now = VideoLoadTimeout => camera'.promise # "pending"
       /\ camera'.settles <= 1
       /\ camera'.promise \in {"resolved", "rejected"} =>
             camera'.settles = 1 /\ ~camera'.isLoading
       /\ camera'.settles # camera.settles =>
             \/ /\ camera'.promise = "resolved"
                /\ camera'.isActive /\ ~camera'.isLoading /\ camera'.error = "null"
             \/ /\ camera'.promise \in {"rejected", "none"}
                /\ ~camera'.isActive /\ ~camera'.isLoading /\ camera'.error # "null"
                /\ ~camera'.streamRef /\ ~camera'.tracksLive]_vars

\* The video never became ready: the timeout rejected the wait at 10
\* seconds and the hook shows its message.
C19_TimedOut ==
    /\ camera # None
    /\ camera.promise = "rejected"
    /\ camera.now = VideoLoadTimeout
    /\ camera.error = TimeoutMessage
    /\ ~camera.isLoading /\ ~camera.isActive /\ ~camera.tracksLive

\* C20: findContours returns its contours in descending order of point
\* count: each contour has at least as many points as the one after it.
C20_ContoursSortedDescending ==
    pc = "contours" =>
        \A i \in 1..(Len(call.result) - 1) :
            Len(call.result[i]) >= Len(call.result[i + 1])

\* Three contours were found and the largest, now first, was traced last:
\* it starts in a lower row than the two after it.
C20_LargestTracedLast ==
    /\ pc = "contours"
    /\ Len(call.result) = 3
    /\ Len(call.result[1]) > Len(call.result[2])
    /\ call.result[1][1].y > call.result[2][1].y
    /\ call.result[1][1].y > call.result[3][1].y

\* The number of pixels of the connected component of the edge image that
\* begins in row: its run and, in the row below, its tail.
ComponentSize(row) ==
    Cardinality({p \in call.imageData.bright : p.y = row \/ p.y = row + 1})

\* The component that begins in row is among the returned contours, whole.
Returned(row) ==
    \E i \in 1..Len(call.result) :
        /\ call.result[i][1] = Pt(0, row)
        /\ Len(call.result[i]) = ComponentSize(row)

\* C21 as stated: a traced contour is dropped when it has fewer than 50
\* points and returned when it has 50 or more.
C21_KeptFromFiftyPoints ==
    pc = "contours" =>
        \A row \in RunRows : Returned(row) <=> ComponentSize(row) >= MinContourPoints

\* C21, amended: a traced contour is dropped when it has 50 points or
\* fewer and returned when it has more than 50.
C21_KeptAboveFiftyPoints ==
    pc = "contours" =>
        /\ \A row \in RunRows : Returned(row) <=> ComponentSize(row) > MinContourPoints
        /\ Len(call.result) = Cardinality({row \in RunRows : Returned(row)})

\* A contour of exactly 50 points was dropped, one of 49 too, and one of
\* 51 points was returned.
C21_FiftyDroppedFiftyOneKept ==
    /\ pc = "contours"
    /\ ComponentSize(0) = MinContourPoints - 1 /\ ~Returned(0)
    /\ ComponentSize(3) = MinContourPoints /\ ~Returned(3)
    /\ ComponentSize(6) = MinContourPoints + 1 /\ Returned(6)

\* out can be read off in by strictly increasing positions.
RECURSIVE IsSubsequence(_, _)
IsSubsequence(out, in) ==
    IF out = <<>> THEN TRUE
    ELSE IF in = <<>> THEN FALSE
    ELSE IF Head(out) = Head(in) THEN IsSubsequence(Tail(out), Tail(in))
    ELSE IsSubsequence(out, Tail(in))

PairwiseDistinct(s) == \A a \in 1..Len(s), b \in 1..Len(s) : s[a] = s[b] => a = b

\* C23: on an input of at least 2 points the output of douglasPeucker
\* starts with the input's first point, ends with its last point and is a
\* subsequence of the input in input order; no point, a split point
\* included, is put out more often than the input has it.
C23_EndpointsAndOrderKept ==
    (pc = "simplified" /\ Len(call.points) >= 2) =>
        /\ Len(call.dp) >= 2
        /\ call.dp[1] = call.points[1]
        /\ call.dp[Len(call.dp)] = call.points[Len(call.points)]
        /\ IsSubsequence(call.dp, call.points)
        /\ PairwiseDistinct(call.points) => PairwiseDistinct(call.dp)

\* A polyline of 4 distinct points was split twice: both interior points
\* were split points and each is in the output once.
C23_BothInteriorPointsKept ==
    /\ pc = "simplified"
    /\ Len(call.points) = 4 /\ PairwiseDistinct(call.points)
    /\ call.epsilon = 1
    /\ call.dp = call.points

\* (p - a) x (b - a): twice the area of the triangle a, b, p.
Cross(p, a, b) == (p.x - a.x) * (b.y - a.y) - (p.y - a.y) * (b.x - a.x)

\* The perpendicular distance of p to the chord from a to b exceeds e
\* pixels (the distance to a when the chord is a single point); exact.
BeyondTolerance(p, a, b, e) ==
    IF LineLenSq(a, b) = 0
    THEN (p.x - a.x) * (p.x - a.x) + (p.y - a.y) * (p.y - a.y) > e * e
    ELSE Cross(p, a, b) * Cross(p, a, b) > e * e * LineLenSq(a, b)

\* The first position after i at which points has the point p.
NextMatch(points, i, p) ==
    CHOOSE j \in (i + 1)..Len(points) :
        points[j] = p /\ \A m \in (i + 1)..(j - 1) : points[m] # p

\* From the retained point out[k], found at position i of points, on: no
\* point left out between two consecutive retained points is beyond the
\* tolerance of their chord.
RECURSIVE GapsWithin(_, _, _, _, _)
GapWithin(points, i, j, out, k, e) ==
    /\ \A m \in (i + 1)..(j - 1) : ~BeyondTolerance(points[m], points[i], points[j], e)
    /\ GapsWithin(points, j, out, k + 1, e)

GapsWithin(points, i, out, k, e) ==
    IF k >= Len(out) THEN TRUE
    ELSE GapWithin(points, i, NextMatch(points, i, out[k + 1]), out, k, e)

\* No point occurs twice, but for a closed outline's first point at its end.
DistinctButClosing(s) ==
    \A a \in 1..Len(s), b \in 1..Len(s) :
        (a < b /\ s[a] = s[b]) => (a = 1 /\ b = Len(s))

\* C24: in the output for epsilon e no input point left out between two
\* consecutive retained points is farther than e, perpendicularly, from the
\* chord joining them; and an interior point farther than e from the chord
\* of the whole input makes douglasPeucker split and retain a point.
C24_OmittedPointsWithinTolerance ==
    (pc = "simplified" /\ Len(call.points) >= 3 /\ DistinctButClosing(call.points)) =>
        /\ GapsWithin(call.points, 1, call.dp, 1, call.epsilon)
        /\ (\E m \in 2..(Len(call.points) - 1) :
               BeyondTolerance(call.points[m], call.points[1],
                               call.points[Len(call.points)], call.epsilon))
              => Len(call.dp) > 2

\* A rectangle outline simplified with epsilon 1: points were retained
\* between the endpoints and others were left out.
C24_SomeRetainedSomeOmitted ==
    /\ pc = "simplified"
    /\ call.corners # {}
    /\ call.epsilon = 1
    /\ Len(call.dp) > 2
    /\ Len(call.dp) < Len(call.points)

SquaredLength(p, a) == (p.x - a.x) * (p.x - a.x) + (p.y - a.y) * (p.y - a.y)

\* The squared distance of p to the segment from a to b as the exact
\* fraction <<numerator, denominator>>.
SegmentDistanceSq(p, a, b) ==
    IF LineLenSq(a, b) = 0 \/ LineDot(p, a, b) < 0 THEN <<SquaredLength(p, a), 1>>
    ELSE IF LineDot(p, a, b) > LineLenSq(a, b) THEN <<SquaredLength(p, b), 1>>
    ELSE <<Cross(p, a, b) * Cross(p, a, b), LineLenSq(a, b)>>

\* The largest distance of an interior point of points to the segment of
\* its endpoints is exactly e pixels.
MaxDistanceIs(points, e) ==
    /\ \A m \in 2..(Len(points) - 1) :
          SegmentDistanceSq(points[m], points[1], points[Len(points)])[1]
             <= e * e * SegmentDistanceSq(points[m], points[1], points[Len(points)])[2]
    /\ \E m \in 2..(Len(points) - 1) :
          SegmentDistanceSq(points[m], points[1], points[Len(points)])[1]
             = e * e * SegmentDistanceSq(points[m], points[1], points[Len(points)])[2]

\* C25: when the largest distance of the interior points to the chord
\* equals epsilon, douglasPeucker retains no interior point and returns
\* the two endpoints.
C25_EqualToEpsilonNotSplit ==
    (/\ pc = "simplified" /\ Len(call.points) >= 3
     /\ MaxDistanceIs(call.points, call.epsilon)) =>
        call.dp = <<call.points[1], call.points[Len(call.points)]>>

\* The middle of three points lies exactly 2 pixels above the chord and
\* epsilon is 2: the middle point is dropped.
C25_ExactlyTwoPixelsOff ==
    /\ pc = "simplified"
    /\ call.points = <<Pt(0, 0), Pt(1, 2), Pt(2, 0)>>
    /\ call.epsilon = 2
    /\ call.dp = <<Pt(0, 0), Pt(2, 0)>>

\* The four roles of a quadrilateral as a list.
Roles(rect) == <<rect.topLeft, rect.topRight, rect.bottomLeft, rect.bottomRight>>

\* C26: the roles orderRectanglePoints assigns are a permutation of the 4
\* input points; topLeft and topRight are two points of smallest y with
\* topLeft.x <= topRight.x, bottomLeft and bottomRight the two others, of
\* largest y, with bottomLeft.x <= bottomRight.x.
C26_RolesSortedByYThenX ==
    pc = "ordered" =>
        /\ \E f \in Permutations(1..4) :
              \A i \in 1..4 : Roles(call.rect)[i] = call.points[f[i]]
        /\ \A i \in 1..2, j \in 3..4 : Roles(call.rect)[i].y <= Roles(call.rect)[j].y
        /\ call.rect.topLeft.x <= call.rect.topRight.x
        /\ call.rect.bottomLeft.x <= call.rect.bottomRight.x

\* Four distinct points given bottom-right first and top-left last, each
\* in the wrong place for its role, came out in their roles.
C26_ReversedInputOrdered ==
    /\ pc = "ordered"
    /\ call.points = <<Pt(2, 2), Pt(0, 1), Pt(1, 0), Pt(0, 0)>>
    /\ call.rect = [topLeft |-> Pt(0, 0), topRight |-> Pt(1, 0),
                    bottomLeft |-> Pt(0, 1), bottomRight |-> Pt(2, 2)]

\* Two different pixels that touch by a side or by a corner.
Adjacent(p, q) == p # q /\ Abs(p.x - q.x) <= 1 /\ Abs(p.y - q.y) <= 1

PointSet(c) == {c[i] : i \in 1..Len(c)}

RasterIndex(p, width) == p.y * width + p.x

\* The contour c is one maximal 8-connected component of the bright
\* pixels of img, each pixel once, beginning with its first pixel in
\* raster order.
IsComponent(c, img) ==
    /\ Len(c) >= 1 /\ PairwiseDistinct(c)
    /\ PointSet(c) \subseteq img.bright
    /\ \A p \in PointSet(c) : p.x \in 0..(img.width - 1) /\ p.y \in 0..(img.height - 1)
    /\ \A k \in 2..Len(c) : \E j \in 1..(k - 1) : Adjacent(c[j], c[k])
    /\ \A p \in img.bright \ PointSet(c) : \A q \in PointSet(c) : ~Adjacent(p, q)
    /\ c[1] = FirstInRaster(PointSet(c), img.width)

\* C22: every contour traceContour has returned is exactly one maximal
\* 8-connected component of the pixels above the threshold, its points
\* pairwise distinct and inside the image; no pixel is in two contours;
\* the contours were started in raster scan order; and when findContours
\* returns every pixel above the threshold is in one of them.
C22_TracedAreMaximalComponents ==
    /\ \A i \in 1..Len(call.traced) : IsComponent(call.traced[i], call.imageData)
    /\ \A i \in 1..Len(call.traced), j \in 1..Len(call.traced) :
          i < j => /\ PointSet(call.traced[i]) \cap PointSet(call.traced[j]) = {}
                   /\ RasterIndex(call.traced[i][1], call.imageData.width)
                         < RasterIndex(call.traced[j][1], call.imageData.width)
    /\ pc = "returned" =>
          call.imageData.bright = UNION {PointSet(call.traced[i]) : i \in 1..Len(call.traced)}

\* findContours returned after tracing two components, the first of them
\* held together by a diagonal step only.
C22_DiagonalComponentAndAnother ==
    /\ pc = "returned"
    /\ call.imageData.bright = {Pt(1, 0), Pt(0, 1), Pt(2, 2)}
    /\ call.traced = <<<<Pt(1, 0), Pt(0, 1)>>, <<Pt(2, 2)>>>>

\* What is left to do: 3 for every pixel the scan has not passed, 9 for
\* every bright pixel not yet visited (a pop pushes at most 8), 1 for
\* every stack entry, 2 while no trace is running.
Remaining(c, phase) ==
    3 * (PixelCount(c) - c.index)
    + 9 * Cardinality(c.imageData.bright \ c.visited)
    + Len(c.stack)
    + (IF phase = "scan" THEN 2 ELSE 0)

\* C27: the flood fill terminates: every step of findContours and
\* traceContour lowers a natural number, and before the return a step is
\* always possible; a pixel is marked visited only if it was not, so at
\* most once; the scan position never goes back, and findContours returns
\* when it has passed the last pixel, with an empty stack and every bright
\* pixel visited.
C27_FloodFillTerminates ==
    /\ [](pc # "returned" => ENABLED NextTrace)
    /\ [][/\ Remaining(call', pc') < Remaining(call, pc)
          /\ Remaining(call', pc') >= 0
          /\ Len(call'.contour) > Len(call.contour) =>
                /\ call'.contour[Len(call'.contour)] \notin call.visited
                /\ call'.visited = call.visited \cup {call'.contour[Len(call'.contour)]}
          /\ Len(call'.contour) <= Len(call.contour) => call'.visited = call.visited
          /\ call'.index \in {call.index, call.index + 1}
          /\ pc' = "returned" =>
                /\ call.index = PixelCount(call)
                /\ call.stack = <<>>
                /\ call.visited = call.imageData.bright]_vars

\* findContours returned from an image with every pixel bright: all of
\* them were visited, in one contour, and pixels that had been pushed
\* several times were skipped when popped again.
C27_FullImageTraced ==
    /\ pc = "returned"
    /\ call.imageData.bright = TracePixels
    /\ call.visited = TracePixels
    /\ Len(call.traced) = 1
    /\ Len(call.traced[1]) = Cardinality(TracePixels)

\* C28: once stopCamera has run and the startCamera call has finished, no
\* stream is held or live and isActive is false, also when stopCamera ran
\* while startCamera was awaiting camera access or video readiness; and in
\* every state isActive = true implies a held stream with live tracks.
C28_StoppedCameraStaysReleased ==
    camera # None =>
        /\ camera.stopped /\ camera.settles > 0 =>
              ~camera.streamRef /\ ~camera.tracksLive /\ ~camera.isActive
        /\ camera.isActive => camera.streamRef /\ camera.tracksLive

\* ---------------------------------------------------------------------
\* next-auth callbacks of src/lib/auth.ts: the jwt token kept between
\* calls, the session built from it, and the clock.  Times are counted in
\* token lifetimes of one hour (auth.ts:75, 3600 * 1000 ms).

\* Latest clock value explored
MaxNow == 4
\* Longest expires_in / expires_at distance the authority answers with
MaxLifetime == 2

RefreshAccessTokenError == "RefreshAccessTokenError"

NoAccessTokenError == "No access token received"

\* JavaScript truthiness of a token field
Truthy(v) == v \notin {"undefined", "null"}

AccessTokens == {"a1", "a2"}

RefreshTokens == {"r1", "r2"}

\* The token before the first sign in: no field is set.
EmptyToken ==
    [accessToken |-> "undefined", accessTokenExpires |-> 0,
     refreshToken |-> "undefined", error |-> "undefined"]

\* refreshAccessToken, auth.ts:4-36: ok is response.ok, the other
\* arguments are the fields of the response.
refreshAccessToken(token, ok, access_token, expires_in, refresh_token, now) ==
    IF ok
    THEN [token EXCEPT !.accessToken = access_token,
                       !.accessTokenExpires = now + expires_in,
                       !.refreshToken = IF Truthy(refresh_token) THEN refresh_token
                                        ELSE token.refreshToken]
    ELSE [token EXCEPT !.error = RefreshAccessTokenError]

\* callbacks.jwt with account and user, auth.ts:63-80; expires_at = 0
\* stands for an account without expires_at.
jwtSignIn(token, access_token, expires_at, refresh_token, now) ==
    IF ~Truthy(access_token)
    THEN [token EXCEPT !.error = NoAccessTokenError]
    ELSE [accessToken |-> access_token,
          accessTokenExpires |-> IF expires_at # 0 THEN expires_at ELSE now + 1,
          refreshToken |-> refresh_token,
          error |-> "null"]

\* callbacks.jwt without account, auth.ts:82-97.
jwt(token, ok, access_token, expires_in, refresh_token, now) ==
    IF now < token.accessTokenExpires THEN token
    ELSE IF Truthy(token.refreshToken)
    THEN refreshAccessToken(token, ok, access_token, expires_in, refresh_token, now)
    ELSE [token EXCEPT !.error = RefreshAccessTokenError]

\* callbacks.session, auth.ts:100-113.
session(token) ==
    [accessToken |-> token.accessToken, refreshToken |-> token.refreshToken,
     expiresAt |-> token.accessTokenExpires, error |-> token.error]

\* isConnected, onedrive.ts:224: FALSE when the first test returns false
\* before OneDrive is asked.
PassesSessionCheck(s) ==
    ~(~Truthy(s.accessToken) \/ s.error = RefreshAccessTokenError)

\* What the refreshes of the current sign in have come to: "failed" after
\* a refresh that failed, "recovered" after a successful refresh that
\* followed a failed one.
RefreshHistory(before, token, ok, now) ==
    IF now < token.accessTokenExpires \/ ~Truthy(token.refreshToken) THEN before
    ELSE IF ~ok THEN "failed"
    ELSE IF before = "none" THEN "none"
    ELSE "recovered"

InitAuth ==
    /\ image \in {<<DimStep * MinDimUnits, DimStep * MinDimUnits>>}
    /\ contours = <<>>
    /\ pc = "auth"
    /\ isProcessing = FALSE
    /\ processedImage = None
    /\ cropPoints = None
    /\ isDragging = FALSE
    /\ dragPointIndex = 0 - 1
    /\ canvas = None
    /\ croppedCanvas = None
    /\ toBlobPending = FALSE
    /\ outcome = "open"
    /\ moves = 0
    /\ outputSize = <<DefaultOutputWidth, DefaultOutputHeight>>
    /\ call = [token |-> EmptyToken, session |-> session(EmptyToken),
               now |-> 0, signedIn |-> FALSE, refreshes |-> "none"]
    /\ camera = None

authVars == <<image, contours, pc, isProcessing, processedImage, cropPoints,
              isDragging, dragPointIndex, canvas, croppedCanvas, toBlobPending,
              outcome, moves, outputSize, camera>>

\* A sign in: next-auth calls jwt with the account and the user.
SignIn(access_token, expires_at, refresh_token) ==
    /\ pc = "auth"
    /\ expires_at = 0 \/ expires_at > call.now
    /\ call' = [call EXCEPT
                   !.token = jwtSignIn(call.token, access_token, expires_at,
                                       refresh_token, call.now),
                   !.signedIn = TRUE, !.refreshes = "none"]
    /\ UNCHANGED authVars

\* A later jwt call; the token endpoint answers the refresh request, if
\* one is made, with ok and the given fields.
JwtCallback(ok, access_token, expires_in, refresh_token) ==
    /\ pc = "auth" /\ call.signedIn
    /\ call' = [call EXCEPT
                   !.token = jwt(call.token, ok, access_token, expires_in,
                                 refresh_token, call.now),
                   !.refreshes = RefreshHistory(call.refreshes, call.token, ok,
                                                call.now)]
    /\ UNCHANGED authVars

\* The session callback builds the session from the token.
SessionCallback ==
    /\ pc = "auth" /\ call.signedIn
    /\ call' = [call EXCEPT !.session = session(call.token)]
    /\ UNCHANGED authVars

\* The clock advances.
TimePasses ==
    /\ pc = "auth" /\ call.now < MaxNow
    /\ call' = [call EXCEPT !.now = call.now + 1]
    /\ UNCHANGED authVars

SignsIn ==
    \E access_token \in AccessTokens \cup {"undefined"},
       expires_at \in 0..(MaxNow + MaxLifetime),
       refresh_token \in RefreshTokens \cup {"undefined"} :
        SignIn(access_token, expires_at, refresh_token)

Refreshes ==
    \E ok \in BOOLEAN, access_token \in AccessTokens,
       expires_in \in 1..MaxLifetime,
       refresh_token \in RefreshTokens \cup {"undefined"} :
        JwtCallback(ok, access_token, expires_in, refresh_token)

NextAuth ==
    \/ SignsIn
    \/ Refreshes
    \/ SessionCallback
    \/ TimePasses

SpecAuth == InitAuth /\ [][NextAuth]_vars

\* C29: token refresh recovers: once a failed refresh has been followed by
\* a successful one, the token does not carry error
\* "RefreshAccessTokenError", nor does the session built from it, and
\* isConnected is not made false by its session test while the session
\* holds an unexpired access token.
C29_RefreshRecovers ==
    pc = "auth" /\ call.refreshes = "recovered" =>
        /\ call.token.error # RefreshAccessTokenError
        /\ session(call.token).error # RefreshAccessTokenError
        /\ call.session = session(call.token)
              /\ Truthy(call.session.accessToken)
              /\ call.now < call.session.expiresAt
              => PassesSessionCheck(call.session)

\* ---------------------------------------------------------------------
\* POST /api/reimburse/batch (src/app/api/reimburse/batch/route.ts): the
\* form data of one request, the loop over its items and the response.

\* Number of expense_i / receipt_i pairs a request can carry
MaxItems == 2

\* A number as JavaScript has it here: NaN or an integer.
NaN == [nan |-> TRUE, value |-> 0]

Num(n) == [nan |-> FALSE, value |-> n]

DigitChars == {"0", "1", "2", "3"}

DigitValue(c) == CASE c = "0" -> 0 [] c = "1" -> 1 [] c = "2" -> 2 [] OTHER -> 3

\* The value of the longest prefix of digits of chars, read after acc.
RECURSIVE ParseDigits(_, _)
ParseDigits(chars, acc) ==
    IF chars = <<>> \/ Head(chars) \notin DigitChars THEN acc
    ELSE ParseDigits(Tail(chars), 10 * acc + DigitValue(Head(chars)))

\* parseInt(string): an optional sign, then the leading digits; NaN when
\* no digit follows.
parseInt(chars) ==
    LET signed == chars # <<>> /\ Head(chars) \in {"-", "+"}
        digits == IF signed THEN Tail(chars) ELSE chars
    IN  IF digits = <<>> \/ Head(digits) \notin DigitChars THEN NaN
        ELSE IF signed /\ Head(chars) = "-"
        THEN Num(0 - ParseDigits(digits, 0))
        ELSE Num(ParseDigits(digits, 0))

\* Values of the totalExpenses field, as sequences of characters; Absent
\* is a request without the field.
Absent == <<"absent">>

TotalFields ==
    {Absent, <<>>, <<"0">>, <<"1">>, <<"2">>, <<"3">>, <<"-", "1">>,
     <<"+", "2">>, <<"a">>, <<"2", "a">>, <<"a", "2">>}

\* expense_i: missing, the empty string, text that is no JSON, the JSON
\* null, JSON that reimbursementSchema rejects, JSON that it accepts.
ExpenseFields == {"absent", "empty", "badjson", "null", "invalid", "valid"}

\* receipt_i: missing, a file of size 0, a file that fileSchema rejects, a
\* file that it accepts.
ReceiptFields == {"absent", "empty", "badtype", "valid"}

Response(status, error, item, pdf) ==
    [status |-> status, error |-> error, item |-> item, pdf |-> pdf]

\* formData.get of expense_i and receipt_i: fields past the ones the
\* request carries are missing.
ItemAt(request, i) ==
    IF i < Len(request.items) THEN request.items[i + 1]
    ELSE [expense |-> "absent", receipt |-> "absent"]

\* One pass of the loop body, lines 38-99, for item i: the response it
\* returns, or None when the item is pushed and the loop goes on.  The
\* JSON null makes the destructuring of line 71 throw a TypeError, which
\* the outer catch answers at lines 173-179.
validateItem(item, i) ==
    IF item.expense \in {"absent", "empty"}
    THEN Response(400, "Missing expense data for item", i + 1, FALSE)
    ELSE IF item.receipt \in {"absent", "empty"}
    THEN Response(400, "Missing receipt for expense", i + 1, FALSE)
    ELSE IF item.expense = "badjson"
    THEN Response(400, "Invalid JSON data for expense", i + 1, FALSE)
    ELSE IF item.expense = "null"
    THEN Response(500, "Internal server error", 0, FALSE)
    ELSE IF item.expense = "invalid" \/ item.receipt = "badtype"
    THEN Response(400, "Validation failed for expense", i + 1, FALSE)
    ELSE None

\* The loop condition i < totalExpenses of line 37; false for NaN.
LoopContinues(i, totalExpenses) ==
    ~totalExpenses.nan /\ i < totalExpenses.value

InitBatch ==
    /\ image \in {<<DimStep * MinDimUnits, DimStep * MinDimUnits>>}
    /\ contours = <<>>
    /\ pc = "request"
    /\ isProcessing = FALSE
    /\ processedImage = None
    /\ cropPoints = None
    /\ isDragging = FALSE
    /\ dragPointIndex = 0 - 1
    /\ canvas = None
    /\ croppedCanvas = None
    /\ toBlobPending = FALSE
    /\ outcome = "open"
    /\ moves = 0
    /\ outputSize = <<DefaultOutputWidth, DefaultOutputHeight>>
    /\ call \in {[request |-> [totalExpenses |-> t, items |-> items],
                  totalExpenses |-> NaN, i |-> 0, expenses |-> 0,
                  response |-> None] :
                    t \in TotalFields,
                    items \in [1..MaxItems ->
                                  [expense : ExpenseFields, receipt : ReceiptFields]]}
    /\ camera = None

batchVars == <<image, contours, isProcessing, processedImage, cropPoints,
               isDragging, dragPointIndex, canvas, croppedCanvas, toBlobPending,
               outcome, moves, outputSize, camera>>

\* POST, lines 13-31: the totalExpenses field is checked and parsed.
POSTReadTotal ==
    /\ pc = "request"
    /\ LET field == call.request.totalExpenses
           text == IF field = <<>> THEN <<"0">> ELSE field
       IN  IF field = Absent
           THEN /\ call' = [call EXCEPT !.response =
                               Response(400, "Missing totalExpenses field", 0, FALSE)]
                /\ pc' = "responded"
           ELSE IF parseInt(text) = Num(0)
           THEN /\ call' = [call EXCEPT !.totalExpenses = parseInt(text),
                                        !.response =
                               Response(400, "No expenses provided", 0, FALSE)]
                /\ pc' = "responded"
           ELSE /\ call' = [call EXCEPT !.totalExpenses = parseInt(text)]
                /\ pc' = "loop"
    /\ UNCHANGED batchVars

\* POST, lines 37-100: one iteration of the loop.
POSTValidateItem ==
    /\ pc = "loop"
    /\ LoopContinues(call.i, call.totalExpenses)
    /\ LET answer == validateItem(ItemAt(call.request, call.i), call.i)
       IN  IF answer = None
           THEN /\ call' = [call EXCEPT !.i = call.i + 1,
                                        !.expenses = call.expenses + 1]
                /\ pc' = "loop"
           ELSE /\ call' = [call EXCEPT !.response = answer]
                /\ pc' = "responded"
    /\ UNCHANGED batchVars

\* POST, lines 102-135: after the loop the cover page is built, the
\* receipts are merged and the PDF is returned.
POSTBuildPdf ==
    /\ pc = "loop"
    /\ ~LoopContinues(call.i, call.totalExpenses)
    /\ call' = [call EXCEPT !.response = Response(200, "", 0, TRUE)]
    /\ pc' = "responded"
    /\ UNCHANGED batchVars

NextBatch ==
    \/ POSTReadTotal
    \/ POSTValidateItem
    \/ POSTBuildPdf

SpecBatch == InitBatch /\ [][NextBatch]_vars

\* The item is present and valid.
ItemOk(item) == item.expense = "valid" /\ item.receipt = "valid"

\* totalExpenses parses to a positive integer n and the n items are
\* present and valid.
WellFormed(request) ==
    /\ request.totalExpenses # Absent
    /\ ~parseInt(request.totalExpenses).nan
    /\ parseInt(request.totalExpenses).value > 0
    /\ \A i \in 0..(parseInt(request.totalExpenses).value - 1) :
           ItemOk(ItemAt(request, i))

\* C30: the batch route returns a PDF only for a request whose
\* totalExpenses parses to a positive integer n with all n items present
\* and valid; every other request is answered with status 400 and no PDF,
\* and when an item fails the response names the first failing one.
C30_PdfOnlyForWellFormedRequest ==
    pc = "responded" =>
        IF WellFormed(call.request)
        THEN call.response.status = 200 /\ call.response.pdf
        ELSE /\ call.response.status = 400 /\ ~call.response.pdf
             /\ call.response.item # 0 =>
                   /\ ~ItemOk(ItemAt(call.request, call.response.item - 1))
                   /\ \A i \in 0..(call.response.item - 2) :
                          ItemOk(ItemAt(call.request, i))
====
